---- MODULE Spec2Model ----
(***************************************************************************)
(* EVBox HomeLine stand-alone: the ChargePoint emulation (manager.py), the *)
(* packet schema check (packet.py) and the serial I/O loop (main.py).      *)
(*                                                                         *)
(* Text (dat, payload) is a sequence of one-character strings.  Time is    *)
(* counted in whole seconds.                                               *)
(***************************************************************************)
EXTENDS Integers, Sequences, FiniteSets, TLC

\* ------------------------------------------------------------------ bounds
\* Largest number of closed frames one received chunk holds.
MaxChunk == 2
\* Most bytes find_frames has kept from earlier reads when more bytes arrive.
MaxKeep == 2

\* ------------------------------------------------------- program constants
ADDR_NEW == 0
ADDR_CHARGER == 1
ADDR_CP == 128
ADDR_BROADCAST == 188
ADDR_CHARGESTATION == 253
\* manager.py:235, timedelta(seconds = 2)
RetryDelay == 2
\* manager.py:253, timedelta(seconds = 5)
ConfigDelay == 5

\* --------------------------------------------------------------- text
Min(a, b) == IF a < b THEN a ELSE b

HexChars == <<"0","1","2","3","4","5","6","7","8","9","A","B","C","D","E","F">>
HexSet == {HexChars[i] : i \in 1..16}

\* Python s[a:b] for 0 <= a <= b (indices clipped to the length of s).
Slice(s, a, b) ==
  IF a >= Min(b, Len(s)) THEN <<>> ELSE SubSeq(s, a + 1, Min(b, Len(s)))

\* n copies of the character c.
Rep(c, n) == [i \in 1..n |-> c]

\* bytes.fromhex(s) succeeds: an even number of hexadecimal digits.
HexOK(s) == Len(s) % 2 = 0 /\ \A i \in 1..Len(s) : s[i] \in HexSet

HexVal(c) == CHOOSE i \in 0..15 : HexChars[i + 1] = c

\* int.from_bytes(bytes.fromhex(s)): big-endian value of the digits of s.
RECURSIVE HexInt(_)
HexInt(s) ==
  IF s = <<>> THEN 0
  ELSE HexInt(SubSeq(s, 1, Len(s) - 1)) * 16 + HexVal(s[Len(s)])

\* The digits of n, most significant first, at least one digit.
RECURSIVE HexDigits(_)
HexDigits(n) ==
  IF n < 16 THEN <<HexChars[n + 1]>>
  ELSE HexDigits(n \div 16) \o <<HexChars[(n % 16) + 1]>>

\* f"{n:0wX}": upper-case hex, zero-filled on the left to width w, never cut.
FmtHex(n, w) ==
  LET d == HexDigits(n)
  IN  IF Len(d) >= w THEN d ELSE Rep("0", w - Len(d)) \o d

\* f"{s:0w}" for a string s: filled with "0" on the right to width w.
FmtStr0(s, w) == IF Len(s) >= w THEN s ELSE s \o Rep("0", w - Len(s))

\* ------------------------------------------------------------- packets
\* packet.Packet: dst, src, cmd are integers, dat is text.
Packet(dst, src, cmd, dat) == [dst |-> dst, src |-> src, cmd |-> cmd, dat |-> dat]

\* config.allowed_cards
allowed_cards ==
  { <<"0","4","B","A","2","A","2","A","D","A","1","7","9","0">>,
    <<"0","4","9","7","1","4","7","A","5","B","1","9","9","4">> }

\* The auto start card number, "000000AS".
AutoStart == <<"0","0","0","0","0","0","A","S">>

\* request.dat of the 0x1B request: heartbeat_interval "0000003C", led_enable "00".
ConnStateDat == <<"0","0","0","0","0","0","3","C","0","0">>

\* request.dat of the 0x34 set configuration request.
SetConfigDat ==
  <<"F","F","F","F","F","F","F","F","1","E","0","3","0","0","0","0","0","1",
    "0","1","0","0","0","1","0","0","0","0","0","0","0","0","0","0","0","0",
    "0","0","0","1","0","0","0","0","0","0","0","0","3","C","0","0","0","0",
    "0","3","8","4","0","0","0","0","0","0","3","C","0","1","0","0","0","0",
    "0","0","0","0","0","3","E","8","0","1","0","0","0","0">>

\* request.dat of the 0x6B request sent for state "A7": 6.0 A on every phase.
LimitReadyDat ==
  <<"0","1","0","0","3","C","0","0","3","C","0","0","3","C","0","0","3","C">>

\* Faulty variant: the currents of the "A7" branch were left in the "81" branch.
LimitChargingDat_Copied == LimitReadyDat

\* request.dat of the 0x6B request sent for state "81": 16.0 A on every phase.
LimitChargingDat ==
  <<"0","1","0","0","3","C","0","0","A","0","0","0","A","0","0","0","A","0">>

\* ------------------------------------------------------ ChargePoint (CP)
\* The CP object is a record:
\*   outbox                  the deque, leftmost element first
\*   charger_state           0 (idle), 1, 2, 3
\*   last_message            the packet kept for resending
\*   last_message_age        datetime.now() - _last_message_timestamp in whole
\*                           seconds, counted up to ConfigDelay (no comparison
\*                           of the code tells larger values apart)
\*   check_message_response  the response check flag
\*   queued                  history: the packets passed to _send, in call
\*                           order, since the I/O loop last finished a drain

\* Faulty variant: self._outbox.append(p), the packet joins at the right end.
CP_send_Append(cp, p, check_response) ==
  [cp EXCEPT
     !.check_message_response = IF check_response THEN TRUE ELSE @,
     !.last_message = IF check_response THEN p ELSE @,
     !.last_message_age = 0,
     !.outbox = Append(@, p),
     !.queued = Append(@, p)]

\* Faulty variant: the response check is switched on without the packet
\* being recorded as the last message.
CP_send_NoRecord(cp, p, check_response) ==
  [cp EXCEPT
     !.check_message_response = IF check_response THEN TRUE ELSE @,
     !.last_message_age = 0,
     !.outbox = <<p>> \o @,
     !.queued = Append(@, p)]

\* CP._send(p, check_response)
CP_send(cp, p, check_response) ==
  [cp EXCEPT
     !.check_message_response = IF check_response THEN TRUE ELSE @,
     !.last_message = IF check_response THEN p ELSE @,
     !.last_message_age = 0,
     !.outbox = <<p>> \o @,
     !.queued = Append(@, p)]

\* Faulty variant: the restart registration is sent with the response check on.
CP_init_Tracked ==
  LET request == Packet(ADDR_BROADCAST, ADDR_CP, 30, <<>>)
      fresh == [outbox |-> <<>>,
                charger_state |-> 0,
                last_message |-> request,
                last_message_age |-> 0,
                check_message_response |-> FALSE,
                queued |-> <<>>]
  IN  CP_send(fresh, request, TRUE)

\* Faulty variant: the constructor does not send the restart registration.
CP_init_Silent ==
  [outbox |-> <<>>,
   charger_state |-> 0,
   last_message |-> Packet(ADDR_BROADCAST, ADDR_CP, 30, <<>>),
   last_message_age |-> 0,
   check_message_response |-> FALSE,
   queued |-> <<>>]

\* CP.__init__(outbox)
CP_init ==
  LET request == Packet(ADDR_BROADCAST, ADDR_CP, 30, <<>>)
      fresh == [outbox |-> <<>>,
                charger_state |-> 0,
                last_message |-> request,
                last_message_age |-> 0,
                check_message_response |-> FALSE,
                queued |-> <<>>]
  IN  CP_send(fresh, request, FALSE)

\* Faulty variant: the response check stays as it is.
CP_disable_response_check_Keep(cp) == cp

\* Faulty variant: a response also ends the configuration walk.
CP_disable_response_check_Reset(cp) ==
  [cp EXCEPT !.check_message_response = FALSE, !.charger_state = 0]

\* CP._disable_response_check()
CP_disable_response_check(cp) == [cp EXCEPT !.check_message_response = FALSE]

\* Faulty variant: the early return for other addresses is missing.
AddressedToCP_All(message) == TRUE

\* respond: the message is meant for the ChargePoint.
AddressedToCP(message) == message.dst \in {ADDR_BROADCAST, ADDR_CP}

\* Faulty variant: the reply goes to the address being assigned, not to the sender.
RegisterReply_ToNewAddr(message) ==
  Packet(ADDR_CHARGER, ADDR_CP, message.cmd,
         Slice(message.dat, 0, 7) \o FmtHex(ADDR_CHARGER, 2) \o <<"0","3">>)

\* The reply to a request for address (cmd 0x11): serial, new address, "03".
RegisterReply(message) ==
  Packet(message.src, ADDR_CP, message.cmd,
         Slice(message.dat, 0, 7) \o FmtHex(ADDR_CHARGER, 2) \o <<"0","3">>)

\* CP._timestamp() when the wall clock reads t seconds after 1 jan 2000.
CP_timestamp(t) == FmtHex(t, 8)

\* Faulty variant: the card number is taken as the first 14 characters of the card
\* field, whatever the card number length says.
AuthReply_FixedLength(message) ==
  LET card_number_length == HexInt(Slice(message.dat, 2, 4))
      card_number == Slice(message.dat, 4, 4 + card_number_length)
      status == IF card_number = AutoStart THEN <<"0","1">>
                ELSE IF Slice(message.dat, 4, 18) \in allowed_cards THEN <<"0","1">>
                ELSE <<"1","2">>
  IN  Packet(message.src, ADDR_CP, message.cmd,
             status \o FmtHex(card_number_length, 2)
                    \o FmtStr0(card_number, 22) \o <<"F","F","F","F">>)

\* The reply to an authentication request (cmd 0x22).
AuthReply(message) ==
  LET card_number_length == HexInt(Slice(message.dat, 2, 4))
      card_number == Slice(message.dat, 4, 4 + card_number_length)
      status == IF card_number = AutoStart THEN <<"0","1">>
                ELSE IF card_number \in allowed_cards THEN <<"0","1">>
                ELSE <<"1","2">>
  IN  Packet(message.src, ADDR_CP, message.cmd,
             status \o FmtHex(card_number_length, 2)
                    \o FmtStr0(card_number, 22) \o <<"F","F","F","F">>)

\* The 0x6B set current limit request that follows a charging state message.
LimitRequest(message, dat) == Packet(message.src, ADDR_CP, 107, dat)

\* CP.respond(message) raises ValueError: bytes.fromhex on the card number
\* length of an authentication request.
CP_respond_raises(message) ==
  /\ AddressedToCP(message)
  /\ message.cmd = 34
  /\ ~HexOK(Slice(message.dat, 2, 4))

\* Faulty variant: a message of an unknown command is answered like a heartbeat.
CP_respond_AckUnknown(cp, message, t) ==
  LET reply(dat) == Packet(message.src, ADDR_CP, message.cmd, dat)
      state == Slice(message.dat, 0, 2)
  IN
  IF ~AddressedToCP(message) THEN cp
  ELSE CASE message.cmd = 17 ->    \* 0x11 request for address
              [CP_send(cp, RegisterReply(message), FALSE)
                 EXCEPT !.charger_state = 1]
         [] message.cmd = 19 ->    \* 0x13 get meter info
              CP_send(cp, Packet(message.src, ADDR_CP, 51, <<>>), FALSE)
         [] message.cmd = 33 ->    \* 0x21 heartbeat
              CP_send(cp, reply(<<>>), FALSE)
         [] message.cmd = 34 ->    \* 0x22 authentication request
              CP_send(cp, AuthReply(message), FALSE)
         [] message.cmd = 35 ->    \* 0x23 metering start
              CP_send(cp, reply(<<"0","1">> \o FmtHex(0, 8) \o CP_timestamp(t)), FALSE)
         [] message.cmd = 36 ->    \* 0x24 metering end
              CP_send(cp, reply(<<"0","1">>), FALSE)
         [] message.cmd = 38 ->    \* 0x26 state update
              CP_send(cp, reply(FmtHex(0, 8) \o CP_timestamp(t)), FALSE)
         [] message.cmd \in {49, 50, 51, 52} ->    \* 0x31, 0x32, 0x33, 0x34
              CP_disable_response_check(cp)
         [] message.cmd \in {54, 55, 56, 65, 66, 67} ->  \* 0x36 .. 0x43: pass
              cp
         [] message.cmd = 102 ->   \* 0x66 meter value
              CP_send(cp, reply(<<>>), FALSE)
         [] message.cmd = 106 ->   \* 0x6A charging mode
              LET acked == CP_send(cp, reply(<<"A","A","0","0">>), FALSE)
              IN  IF state = <<"A","7">>
                    THEN CP_send(acked, LimitRequest(message, LimitReadyDat), TRUE)
                  ELSE IF state = <<"8","1">>
                    THEN CP_send(acked, LimitRequest(message, LimitChargingDat), TRUE)
                  ELSE acked
         [] message.cmd = 107 ->   \* 0x6B charging mode
              CP_disable_response_check(cp)
         [] message.cmd = 108 ->   \* 0x6C unknown: pass
              cp
         [] OTHER ->               \* an empty reply, as for 0x21
              CP_send(cp, reply(<<>>), FALSE)

\* Faulty variant: get meter info is answered under its own command, 0x13.
CP_respond_Echo(cp, message, t) ==
  LET reply(dat) == Packet(message.src, ADDR_CP, message.cmd, dat)
      state == Slice(message.dat, 0, 2)
  IN
  IF ~AddressedToCP(message) THEN cp
  ELSE CASE message.cmd = 17 ->    \* 0x11 request for address
              [CP_send(cp, RegisterReply(message), FALSE)
                 EXCEPT !.charger_state = 1]
         [] message.cmd = 19 ->    \* 0x13 get meter info
              CP_send(cp, reply(<<>>), FALSE)
         [] message.cmd = 33 ->    \* 0x21 heartbeat
              CP_send(cp, reply(<<>>), FALSE)
         [] message.cmd = 34 ->    \* 0x22 authentication request
              CP_send(cp, AuthReply(message), FALSE)
         [] message.cmd = 35 ->    \* 0x23 metering start
              CP_send(cp, reply(<<"0","1">> \o FmtHex(0, 8) \o CP_timestamp(t)), FALSE)
         [] message.cmd = 36 ->    \* 0x24 metering end
              CP_send(cp, reply(<<"0","1">>), FALSE)
         [] message.cmd = 38 ->    \* 0x26 state update
              CP_send(cp, reply(FmtHex(0, 8) \o CP_timestamp(t)), FALSE)
         [] message.cmd \in {49, 50, 51, 52} ->    \* 0x31, 0x32, 0x33, 0x34
              CP_disable_response_check(cp)
         [] message.cmd \in {54, 55, 56, 65, 66, 67} ->  \* 0x36 .. 0x43: pass
              cp
         [] message.cmd = 102 ->   \* 0x66 meter value
              CP_send(cp, reply(<<>>), FALSE)
         [] message.cmd = 106 ->   \* 0x6A charging mode
              LET acked == CP_send(cp, reply(<<"A","A","0","0">>), FALSE)
              IN  IF state = <<"A","7">>
                    THEN CP_send(acked, LimitRequest(message, LimitReadyDat), TRUE)
                  ELSE IF state = <<"8","1">>
                    THEN CP_send(acked, LimitRequest(message, LimitChargingDat), TRUE)
                  ELSE acked
         [] message.cmd = 107 ->   \* 0x6B charging mode
              CP_disable_response_check(cp)
         [] message.cmd = 108 ->   \* 0x6C unknown: pass
              cp
         [] OTHER ->               \* "unknown message"
              cp

\* CP.respond(message), the wall clock reading t seconds after 1 jan 2000.
CP_respond(cp, message, t) ==
  LET reply(dat) == Packet(message.src, ADDR_CP, message.cmd, dat)
      state == Slice(message.dat, 0, 2)
  IN
  IF ~AddressedToCP(message) THEN cp
  ELSE CASE message.cmd = 17 ->    \* 0x11 request for address
              [CP_send(cp, RegisterReply(message), FALSE)
                 EXCEPT !.charger_state = 1]
         [] message.cmd = 19 ->    \* 0x13 get meter info
              CP_send(cp, Packet(message.src, ADDR_CP, 51, <<>>), FALSE)
         [] message.cmd = 33 ->    \* 0x21 heartbeat
              CP_send(cp, reply(<<>>), FALSE)
         [] message.cmd = 34 ->    \* 0x22 authentication request
              CP_send(cp, AuthReply(message), FALSE)
         [] message.cmd = 35 ->    \* 0x23 metering start
              CP_send(cp, reply(<<"0","1">> \o FmtHex(0, 8) \o CP_timestamp(t)), FALSE)
         [] message.cmd = 36 ->    \* 0x24 metering end
              CP_send(cp, reply(<<"0","1">>), FALSE)
         [] message.cmd = 38 ->    \* 0x26 state update
              CP_send(cp, reply(FmtHex(0, 8) \o CP_timestamp(t)), FALSE)
         [] message.cmd \in {49, 50, 51, 52} ->    \* 0x31, 0x32, 0x33, 0x34
              CP_disable_response_check(cp)
         [] message.cmd \in {54, 55, 56, 65, 66, 67} ->  \* 0x36 .. 0x43: pass
              cp
         [] message.cmd = 102 ->   \* 0x66 meter value
              CP_send(cp, reply(<<>>), FALSE)
         [] message.cmd = 106 ->   \* 0x6A charging mode
              LET acked == CP_send(cp, reply(<<"A","A","0","0">>), FALSE)
              IN  IF state = <<"A","7">>
                    THEN CP_send(acked, LimitRequest(message, LimitReadyDat), TRUE)
                  ELSE IF state = <<"8","1">>
                    THEN CP_send(acked, LimitRequest(message, LimitChargingDat), TRUE)
                  ELSE acked
         [] message.cmd = 107 ->   \* 0x6B charging mode
              CP_disable_response_check(cp)
         [] message.cmd = 108 ->   \* 0x6C unknown: pass
              cp
         [] OTHER ->               \* "unknown message"
              cp

\* Faulty variant: the resend waits until more than RetryDelay seconds have passed.
CP_check_response_Late(cp) ==
  IF cp.last_message_age <= RetryDelay THEN cp
  ELSE CP_send(cp, cp.last_message, TRUE)

\* CP._check_response()
CP_check_response(cp) ==
  IF cp.last_message_age < RetryDelay THEN cp
  ELSE CP_send(cp, cp.last_message, TRUE)

\* Faulty variant: the walk does not wait for ConfigDelay seconds.
CP_configure_charger_Unguarded(cp) ==
  IF cp.charger_state = 1 THEN
         [CP_send(cp, Packet(ADDR_CHARGER, ADDR_CP, 27, ConnStateDat), FALSE)
            EXCEPT !.charger_state = 2]
  ELSE IF cp.charger_state = 2 THEN
         [CP_send(cp, Packet(ADDR_CHARGER, ADDR_CP, 52, SetConfigDat), TRUE)
            EXCEPT !.charger_state = 3]
  ELSE IF cp.charger_state = 3 THEN [cp EXCEPT !.charger_state = 0]
  ELSE cp

\* Faulty variant: the 0x1B request is sent with the response check on.
CP_configure_charger_Tracked(cp) ==
  IF cp.last_message_age < ConfigDelay THEN cp
  ELSE IF cp.charger_state = 1 THEN
         [CP_send(cp, Packet(ADDR_CHARGER, ADDR_CP, 27, ConnStateDat), TRUE)
            EXCEPT !.charger_state = 2]
  ELSE IF cp.charger_state = 2 THEN
         [CP_send(cp, Packet(ADDR_CHARGER, ADDR_CP, 52, SetConfigDat), TRUE)
            EXCEPT !.charger_state = 3]
  ELSE IF cp.charger_state = 3 THEN [cp EXCEPT !.charger_state = 0]
  ELSE cp

\* CP._configure_charger()
CP_configure_charger(cp) ==
  IF cp.last_message_age < ConfigDelay THEN cp
  ELSE IF cp.charger_state = 1 THEN
         [CP_send(cp, Packet(ADDR_CHARGER, ADDR_CP, 27, ConnStateDat), FALSE)
            EXCEPT !.charger_state = 2]
  ELSE IF cp.charger_state = 2 THEN
         [CP_send(cp, Packet(ADDR_CHARGER, ADDR_CP, 52, SetConfigDat), TRUE)
            EXCEPT !.charger_state = 3]
  ELSE IF cp.charger_state = 3 THEN [cp EXCEPT !.charger_state = 0]
  ELSE cp

\* Faulty variant: the walk is guarded by the timestamp as it was when timers
\* was called, a resend in the same call notwithstanding.
CP_timers_Stale(cp) ==
  LET checked == IF cp.check_message_response THEN CP_check_response(cp) ELSE cp
      stale == [checked EXCEPT !.last_message_age = cp.last_message_age]
  IN  IF checked.charger_state > 0
        THEN [CP_configure_charger(stale) EXCEPT !.last_message_age =
                IF Len(checked.queued) > Len(cp.queued) THEN 0 ELSE @]
      ELSE checked

\* Faulty variant: _check_response is called whatever the flag says.
CP_timers_Unflagged(cp) ==
  LET checked == CP_check_response(cp)
  IN  IF checked.charger_state > 0 THEN CP_configure_charger(checked) ELSE checked

\* CP.timers()
CP_timers(cp) ==
  LET checked == IF cp.check_message_response THEN CP_check_response(cp) ELSE cp
  IN  IF checked.charger_state > 0 THEN CP_configure_charger(checked) ELSE checked

\* ------------------------------------------------- packet schema check
\* Packet._print() raises ValueError: bytes.fromhex fails on a field it
\* parses, or the error text it collects is not empty.
PrintRaises(p) ==
  LET d == p.dat
      n == Len(d)
      bad(a, b) == ~HexOK(Slice(d, a, b))
      to_cp == p.dst = ADDR_CP
      from_cp == p.src = ADDR_CP
  IN
  \/ bad(0, 4)
  \/ /\ p.cmd = 17       \* 0x11 register
     /\ IF to_cp THEN n # 15 ELSE n # 11
  \/ /\ p.cmd = 19       \* 0x13 get meter info
     /\ IF from_cp THEN n # 0
        ELSE \/ n < 4 \/ bad(0, 4)
             \/ LET state == HexInt(Slice(d, 0, 4))
                IN  IF state = 43520       \* 0xAA00
                      THEN n # 64 \/ bad(4, 6) \/ bad(22, 24) \/ bad(56, 60)
                    ELSE IF state = 85     \* 0x0055
                      THEN n # 4
                    ELSE TRUE
  \/ /\ p.cmd = 24       \* 0x18 request update
     /\ IF from_cp THEN n # 2 \/ bad(0, 2) ELSE TRUE
  \/ /\ p.cmd = 27       \* 0x1B connection state changed
     /\ IF from_cp THEN n # 10 ELSE TRUE
  \/ /\ p.cmd = 28       \* 0x1C led ring enable
     /\ IF from_cp THEN n # 2 \/ bad(0, 2) ELSE TRUE
  \/ /\ p.cmd = 30       \* 0x1E restart registration
     /\ IF from_cp THEN n # 0 ELSE TRUE
  \/ /\ p.cmd = 33       \* 0x21 heartbeat
     /\ n # 0
  \/ /\ p.cmd = 34       \* 0x22 authentication request
     /\ \/ IF to_cp THEN n # 26 ELSE n # 30
        \/ bad(0, 2) \/ bad(2, 4)
  \/ /\ p.cmd = 35       \* 0x23 metering start
     /\ IF to_cp THEN n # 32 \/ bad(0, 2) \/ bad(24, 32)
        ELSE n # 18 \/ bad(2, 10) \/ bad(10, 18)
  \/ /\ p.cmd = 36       \* 0x24 metering end
     /\ IF to_cp
          THEN n # 50 \/ bad(0, 2) \/ bad(32, 40) \/ bad(42, 50) \/ bad(24, 32)
        ELSE n # 2
  \/ /\ p.cmd = 38       \* 0x26 charger state update
     /\ IF to_cp
          THEN \/ n # 132
               \/ bad(0, 2) \/ bad(6, 8) \/ bad(8, 10) \/ bad(10, 12) \/ bad(12, 14)
               \/ bad(18, 26) \/ bad(30, 32) \/ bad(52, 56) \/ bad(58, 66)
               \/ \E k \in 0..9 : bad(68 + 4 * k, 72 + 4 * k)
               \/ bad(124, 128) \/ bad(128, 132)
        ELSE n # 16 \/ bad(0, 8) \/ bad(8, 16)
  \/ /\ p.cmd = 49       \* 0x31 remote start
     /\ IF from_cp THEN n # 24 \/ bad(0, 2) ELSE n # 2 \/ bad(0, 2)
  \/ /\ p.cmd = 50       \* 0x32 remote stop
     /\ IF from_cp THEN n # 8 \/ bad(0, 8) ELSE n # 2 \/ bad(0, 2)
  \/ /\ p.cmd = 51       \* 0x33 get configuration
     /\ IF from_cp THEN n # 0
        ELSE \/ n \notin {74, 78}
             \/ bad(20, 24) \/ bad(30, 32) \/ bad(36, 38) \/ bad(54, 56) \/ bad(66, 68)
  \/ /\ p.cmd = 52       \* 0x34 set configuration
     /\ IF from_cp
          THEN \/ n # 86
               \/ bad(8, 10) \/ bad(16, 18) \/ bad(38, 40) \/ bad(58, 66) \/ bad(74, 76)
        ELSE n # 4
  \/ /\ p.cmd = 53       \* 0x35 reboot
     /\ ~from_cp
  \/ /\ p.cmd = 66       \* 0x42 set serial number
     /\ n # 7
  \/ /\ p.cmd = 67       \* 0x43 hardware info
     /\ IF from_cp THEN n # 0 ELSE n # 18
  \/ /\ p.cmd = 101      \* 0x65 set meter update interval
     /\ IF from_cp THEN n # 4 \/ bad(0, 4) ELSE TRUE
  \/ /\ p.cmd = 102      \* 0x66 meter value
     /\ IF to_cp
          THEN n # 44 \/ (\E k \in 0..8 : bad(4 * k, 4 * k + 4)) \/ bad(36, 44)
        ELSE n # 0
  \/ /\ p.cmd = 106      \* 0x6A charging state
     /\ IF to_cp THEN n # 4 \/ bad(0, 2) ELSE n # 4 \/ bad(0, 4)
  \/ /\ p.cmd = 107      \* 0x6B set current limit
     /\ IF from_cp
          THEN n # 18 \/ bad(2, 6) \/ bad(6, 10) \/ bad(10, 14) \/ bad(14, 18)
        ELSE n # 0

\* The bytes a frame payload may hold: null, 0-9, A-Z (null written "NUL").
PayloadChars ==
  HexSet \cup {"G","H","I","J","K","L","M","N","O","P","Q","R","S","T","U",
               "V","W","X","Y","Z"} \cup {"NUL"}

\* send(p) raises ValueError: Packet.get_payload() prints the packet, and
\* Frame.get_bytes() validates the frame built around the payload.
SendRaises(p) ==
  \/ PrintRaises(p)
  \/ \E i \in 1..Len(p.dat) : p.dat[i] \notin PayloadChars

\* ------------------------------------------------------------- bytes
\* A byte string is a sequence of numbers 0 .. 255.
Max(a, b) == IF a > b THEN a ELSE b

\* A slice index of Python on a sequence of n elements: a negative index
\* counts from the end, and every index is clipped to 0 .. n.
Clip(i, n) == IF i < 0 THEN Max(n + i, 0) ELSE Min(i, n)

\* Python s[a:b], either index negative or not.
PySlice(s, a, b) == Slice(s, Clip(a, Len(s)), Clip(b, Len(s)))

\* s.find(pat): the lowest index (from 0) where pat starts in s, -1 if none.
Find(s, pat) ==
  LET hits == {i \in 0..(Len(s) - Len(pat)) : SubSeq(s, i + 1, i + Len(pat)) = pat}
  IN  IF hits = {} THEN -1 ELSE CHOOSE i \in hits : \A j \in hits : i <= j

Letters ==
  <<"A","B","C","D","E","F","G","H","I","J","K","L","M",
    "N","O","P","Q","R","S","T","U","V","W","X","Y","Z">>

\* The bytes Frame._validate lets a payload hold: null, 0-9, A-Z.
PayloadBytes == {0} \cup (48..57) \cup (65..90)

\* The character of text that one payload byte is in ASCII.
Chr(b) ==
  IF b = 0 THEN "NUL" ELSE IF b <= 57 THEN HexChars[b - 47] ELSE Letters[b - 64]

Ord(c) == CHOOSE b \in PayloadBytes : Chr(b) = c

\* payload.decode("ascii") and text.encode("ascii").
Decode(bs) == IF bs = <<>> THEN <<>> ELSE [i \in 1..Len(bs) |-> Chr(bs[i])]
Encode(s) == IF s = <<>> THEN <<>> ELSE [i \in 1..Len(s) |-> Ord(s[i])]

\* a ^ b on non-negative integers.
RECURSIVE Xor(_, _)
Xor(a, b) ==
  IF a = 0 THEN b
  ELSE IF b = 0 THEN a
  ELSE ((a + b) % 2) + 2 * Xor(a \div 2, b \div 2)

\* sum(payload)
RECURSIVE Sum(_)
Sum(bs) == IF bs = <<>> THEN 0 ELSE bs[1] + Sum(Tail(bs))

\* What a method gives back: a value, or a ValueError raised instead.
Returned(v) == [raised |-> FALSE, value |-> v]
Raised == [raised |-> TRUE, value |-> <<>>]

\* --------------------------------------------------------- Frame (frame.py)
\* Frame._calculate_checksum(payload)
Frame_calculate_checksum(payload) == Encode(FmtHex(Sum(payload) % 256, 2))

\* Frame._calculate_parity(payload)
RECURSIVE ParityOf(_)
ParityOf(bs) == IF bs = <<>> THEN 0 ELSE Xor(ParityOf(Tail(bs)), bs[1])
Frame_calculate_parity(payload) == Encode(FmtHex(ParityOf(payload), 2))

\* Faulty variant: the length check lets a frame of 12 bytes pass.
Frame_validate_raises_Short(frame) ==
  LET payload == PySlice(frame, 1, -6)
  IN  \/ Len(frame) < 12
      \/ PySlice(frame, 0, 1) # <<2>>
      \/ PySlice(frame, -2, Len(frame)) # <<3, 255>>
      \/ \E i \in 1..Len(payload) : payload[i] \notin PayloadBytes
      \/ PySlice(frame, -6, -4) # Frame_calculate_checksum(payload)
      \/ PySlice(frame, -4, -2) # Frame_calculate_parity(payload)

\* Frame._validate(frame) raises ValueError: the error text is not empty.
Frame_validate_raises(frame) ==
  LET payload == PySlice(frame, 1, -6)
  IN  \/ Len(frame) < 13
      \/ PySlice(frame, 0, 1) # <<2>>
      \/ PySlice(frame, -2, Len(frame)) # <<3, 255>>
      \/ \E i \in 1..Len(payload) : payload[i] \in {2, 3}
      \/ \E i \in 1..Len(payload) : payload[i] \notin PayloadBytes
      \/ PySlice(frame, -6, -4) # Frame_calculate_checksum(payload)
      \/ PySlice(frame, -4, -2) # Frame_calculate_parity(payload)

\* Faulty variant: the payload is cut one byte early, data[1:-7].
Frame_from_bytes_Cut(frame) ==
  IF Frame_validate_raises(frame) THEN Raised
  ELSE Returned(PySlice(frame, 1, -7))

\* Frame(data) for bytes, Frame._from_bytes: the payload the frame object
\* holds, or the ValueError of _validate.
Frame_from_bytes(frame) ==
  IF Frame_validate_raises(frame) THEN Raised
  ELSE Returned(PySlice(frame, 1, -6))

\* Faulty variant: the frame is returned without being validated.
Frame_get_bytes_Unchecked(payload) ==
  Returned(<<2>> \o payload \o Frame_calculate_checksum(payload)
                \o Frame_calculate_parity(payload) \o <<3, 255>>)

\* Frame.get_bytes() of a frame object holding payload.
Frame_get_bytes(payload) ==
  LET frame == <<2>> \o payload \o Frame_calculate_checksum(payload)
                     \o Frame_calculate_parity(payload) \o <<3, 255>>
  IN  IF Frame_validate_raises(frame) THEN Raised ELSE Returned(frame)

\* ------------------------------------------------ Packet codec (packet.py)
\* Packet.get_payload(): the payload, or the ValueError of _print.
Packet_get_payload(p) ==
  IF PrintRaises(p) THEN Raised
  ELSE Returned(Encode(FmtHex(p.dst, 2) \o FmtHex(p.src, 2) \o FmtHex(p.cmd, 2)
                         \o p.dat))

\* Faulty variant: dat is taken from the fifth character on, data[4:].
Packet_from_payload_Early(payload) ==
  LET text == Decode(payload)
      header_ok == /\ HexOK(Slice(text, 0, 2))
                   /\ HexOK(Slice(text, 2, 4))
                   /\ HexOK(Slice(text, 4, 6))
      p == Packet(HexInt(Slice(text, 0, 2)), HexInt(Slice(text, 2, 4)),
                  HexInt(Slice(text, 4, 6)), Slice(text, 4, Len(text)))
  IN  IF ~header_ok THEN Raised
      ELSE IF PrintRaises(p) THEN Raised
      ELSE Returned(p)

\* Packet().from_payload(payload) for a payload a frame has validated: the
\* packet, or the ValueError of bytes.fromhex or of _print.
Packet_from_payload(payload) ==
  LET text == Decode(payload)
      header_ok == /\ HexOK(Slice(text, 0, 2))
                   /\ HexOK(Slice(text, 2, 4))
                   /\ HexOK(Slice(text, 4, 6))
      p == Packet(HexInt(Slice(text, 0, 2)), HexInt(Slice(text, 2, 4)),
                  HexInt(Slice(text, 4, 6)), Slice(text, 6, Len(text)))
  IN  IF ~header_ok THEN Raised
      ELSE IF PrintRaises(p) THEN Raised
      ELSE Returned(p)

\* Frame(frame_data).get_packet(), as find_frames calls it.
Frame_get_packet(frame_data) ==
  LET framed == Frame_from_bytes(frame_data)
  IN  IF framed.raised THEN Raised ELSE Packet_from_payload(framed.value)

\* ------------------------------------------------------ received packets
\* The packets Packet.from_payload builds from the frames on the bus: the
\* charger's requests and responses, the same addressed to others, and
\* packets that break the schema of their command.
RegisterDat == <<"1","2","3","4","5","6","7","A","B","C","D","0","0","0","3">>
RegisterShortDat == <<"7","6","5","4","3","2","1","A","B","C","D">>
OtherCard == <<"0","4","B","A","2","A","2","A","D","A","1","7","9","1">>

\* An authentication request: state "00", the card number length, the card
\* number field of 22 characters; 26 characters to CP, 30 to broadcast.
AuthRequest(dst, card_len, card) ==
  Packet(dst, ADDR_CHARGER, 34,
         <<"0","0">> \o FmtHex(card_len, 2) \o FmtStr0(card, 22)
                     \o (IF dst = ADDR_CP THEN <<>> ELSE <<"F","F","F","F">>))

AuthRequests ==
  { AuthRequest(dst, card_len, card) :
      dst \in {ADDR_CP, ADDR_BROADCAST},
      card_len \in {0, 8, 14, 22},
      card \in allowed_cards \cup {OtherCard, AutoStart} }

ChargerPackets ==
  { Packet(ADDR_CP, ADDR_NEW, 17, RegisterDat),
    Packet(ADDR_BROADCAST, ADDR_NEW, 17, RegisterShortDat),
    Packet(ADDR_CP, ADDR_CP, 17, RegisterDat),
    Packet(ADDR_CP, ADDR_CHARGER, 19, <<"0","0","5","5">>),
    Packet(ADDR_CP, ADDR_CHARGER, 33, <<>>),
    Packet(ADDR_CP, ADDR_CHARGER, 33, <<"0","0">>),
    Packet(ADDR_CP, ADDR_CHARGER, 35, Rep("0", 32)),
    Packet(ADDR_CP, ADDR_CHARGER, 36, Rep("0", 50)),
    Packet(ADDR_CP, ADDR_CHARGER, 38, Rep("0", 132)),
    Packet(ADDR_CP, ADDR_CHARGER, 42, <<>>),
    Packet(ADDR_CP, ADDR_CHARGER, 49, <<"0","1">>),
    Packet(ADDR_CP, ADDR_CHARGER, 50, <<"0","1">>),
    Packet(ADDR_CP, ADDR_CHARGER, 51, Rep("0", 74)),
    Packet(ADDR_CP, ADDR_CHARGER, 52, <<"A","A","0","0">>),
    Packet(ADDR_CP, ADDR_CHARGER, 54, <<>>),
    Packet(ADDR_CP, ADDR_CHARGER, 67, Rep("0", 18)),
    Packet(ADDR_CP, ADDR_CHARGER, 102, Rep("0", 44)),
    Packet(ADDR_CP, ADDR_CHARGER, 106, <<"A","7","0","0">>),
    Packet(ADDR_CP, ADDR_CHARGER, 106, <<"8","1","0","0">>),
    Packet(ADDR_CP, ADDR_CHARGER, 106, <<"A","0","0","0">>),
    Packet(ADDR_BROADCAST, ADDR_CHARGER, 106, <<"A","7","0","0">>),
    Packet(ADDR_CP, ADDR_CHARGER, 107, <<>>),
    Packet(ADDR_CP, ADDR_CHARGER, 108, <<>>),
    Packet(ADDR_CP, ADDR_CHARGER, 153, <<>>),
    Packet(ADDR_BROADCAST, ADDR_CHARGER, 19, <<"0","0","5","5">>),
    Packet(ADDR_BROADCAST, ADDR_CHARGER, 52, <<"A","A","0","0">>),
    Packet(ADDR_BROADCAST, ADDR_CHARGER, 108, <<>>) } \cup AuthRequests

RxPackets ==
  ChargerPackets
    \cup { Packet(dst, p.src, p.cmd, p.dat) :
             dst \in {ADDR_NEW, ADDR_CHARGER, ADDR_CHARGESTATION}, p \in ChargerPackets }

\* What datetime.now() may read when respond builds a timestamp, in seconds
\* after 1 jan 2000.
ClockReadings == {846979200, 846979261}

\* --------------------------------------------------------- the I/O loop
VARIABLES
  cp,          \* CB_MANAGER, with OUTBOX as cp.outbox
  pc,          \* where the loop of read_from_serial is
  rx_left,     \* closed frames left in data (find_frames)
  msg,         \* the packet p find_frames decoded and handed to respond
  monitor,     \* MONITOR
  bus,         \* history: the packets written to HANDLE in the current drain
  first_sent,  \* history: the first packet ever written to HANDLE, if any
  data,        \* the bytes read_from_serial keeps between calls of find_frames
  scanned,     \* history: the closed frames of the last find_frames call and
               \* what became of each
  codec,       \* one use of the Frame and Packet classes, see CodecSpec
  stream,      \* the bytes the charger puts on the line, see StreamSpec
  fed,         \* how many bytes of stream HANDLE.read() has returned so far
  frames_met   \* history: the closed frames find_frames has met since the
               \* start, over all its calls, and what became of each

vars == <<cp, pc, rx_left, msg, monitor, bus, first_sent, data, scanned, codec, stream, fed, frames_met>>

\* Packet(): the fields a new packet object holds.
NoPacket == Packet(0, 0, 0, <<>>)

\* No Frame or Packet object in use.
NoCodec ==
  [op |-> "none", step |-> 0, raised |-> FALSE,
   frame |-> <<>>, payload |-> <<>>, packet |-> NoPacket,
   frame2 |-> <<>>, payload2 |-> <<>>, packet2 |-> NoPacket]

\* Faulty variant: OUTBOX.popleft().
OutboxPop_Left(outbox) == [packet |-> Head(outbox), rest |-> Tail(outbox)]

\* OUTBOX.pop(): the rightmost element, and the deque without it.
OutboxPop(outbox) ==
  [packet |-> outbox[Len(outbox)], rest |-> SubSeq(outbox, 1, Len(outbox) - 1)]

\* Faulty variant: "if OUTBOX:", the drain writes one packet at most.
DrainDone_Once(outbox, written) == outbox = <<>> \/ written >= 1

\* "while OUTBOX:" ends the drain, however many packets it has written.
DrainDone(outbox, written) == outbox = <<>>

Init ==
  /\ cp = CP_init
  /\ pc = "read"
  /\ rx_left = 0
  /\ msg = NoPacket
  /\ monitor \in BOOLEAN
  /\ bus = <<>>
  /\ first_sent = <<>>
  /\ data = <<>>
  /\ scanned = <<>>
  /\ stream = <<>>
  /\ fed = 0
  /\ frames_met = <<>>
  /\ codec = NoCodec

\* read_from_serial: HANDLE.in_waiting, the chunk read holds n closed frames.
ReadData ==
  /\ pc = "read"
  /\ \E n \in 1..MaxChunk : rx_left' = n
  /\ pc' = "scan"
  /\ UNCHANGED <<cp, msg, monitor, bus, first_sent, data, scanned, codec, stream, fed, frames_met>>

\* read_from_serial: nothing waiting.
NoData ==
  /\ pc = "read"
  /\ pc' = "timers"
  /\ UNCHANGED <<cp, rx_left, msg, monitor, bus, first_sent, data, scanned, codec, stream, fed, frames_met>>

\* find_frames, finally: the frame is cut from data; return when data is empty.
FrameDone ==
  /\ rx_left' = rx_left - 1
  /\ pc' = IF rx_left = 1 THEN "timers" ELSE "scan"

\* find_frames, except ValueError: the frame's packet is not built.
FrameRejected ==
  /\ pc = "scan"
  /\ \E p \in RxPackets : PrintRaises(p)
  /\ FrameDone
  /\ UNCHANGED <<cp, msg, monitor, bus, first_sent, data, scanned, codec, stream, fed, frames_met>>

\* find_frames, else with MONITOR set: the packet is printed only.
FrameObserved ==
  /\ pc = "scan"
  /\ monitor
  /\ \E p \in RxPackets : ~PrintRaises(p)
  /\ FrameDone
  /\ UNCHANGED <<cp, msg, monitor, bus, first_sent, data, scanned, codec, stream, fed, frames_met>>

\* find_frames, else: CB_MANAGER.respond(p).
FrameDispatched ==
  /\ pc = "scan"
  /\ ~monitor
  /\ \E p \in RxPackets, t \in ClockReadings :
       /\ ~PrintRaises(p)
       /\ msg' = p
       /\ IF CP_respond_raises(p)
            THEN pc' = "crashed" /\ cp' = cp
            ELSE pc' = "reply" /\ cp' = CP_respond(cp, p, t)
  /\ UNCHANGED <<rx_left, monitor, bus, first_sent, data, scanned, codec, stream, fed, frames_met>>

\* send(OUTBOX.pop()) in either drain loop.
SendPacket ==
  /\ pc \in {"reply", "flush"}
  /\ ~DrainDone(cp.outbox, Len(bus))
  /\ LET popped == OutboxPop(cp.outbox)
     IN  /\ ~SendRaises(popped.packet)
         /\ cp' = [cp EXCEPT !.outbox = popped.rest]
         /\ bus' = Append(bus, popped.packet)
         /\ first_sent' = IF first_sent = <<>> THEN <<popped.packet>> ELSE first_sent
  /\ UNCHANGED <<pc, rx_left, msg, monitor, data, scanned, codec, stream, fed, frames_met>>

\* send(OUTBOX.pop()) raises ValueError, which nothing catches.
SendCrash ==
  /\ pc \in {"reply", "flush"}
  /\ ~DrainDone(cp.outbox, Len(bus))
  /\ LET popped == OutboxPop(cp.outbox)
     IN  /\ SendRaises(popped.packet)
         /\ cp' = [cp EXCEPT !.outbox = popped.rest]
  /\ pc' = "crashed"
  /\ UNCHANGED <<rx_left, msg, monitor, bus, first_sent, data, scanned, codec, stream, fed, frames_met>>

\* find_frames: OUTBOX is empty, the drain after respond ends.
EndReply ==
  /\ pc = "reply"
  /\ DrainDone(cp.outbox, Len(bus))
  /\ FrameDone
  /\ msg' = NoPacket
  /\ bus' = <<>>
  /\ cp' = [cp EXCEPT !.queued = <<>>]
  /\ UNCHANGED <<monitor, first_sent, data, scanned, codec, stream, fed, frames_met>>

\* Faulty variant: timers runs whatever MONITOR is.
Timers_Always ==
  /\ pc = "timers"
  /\ cp' = CP_timers(cp)
  /\ pc' = "flush"
  /\ UNCHANGED <<rx_left, msg, monitor, bus, first_sent, data, scanned, codec, stream, fed, frames_met>>

\* read_from_serial: CB_MANAGER.timers() after the 10 ms sleep.
Timers ==
  /\ pc = "timers"
  /\ ~monitor
  /\ cp' = CP_timers(cp)
  /\ pc' = "flush"
  /\ UNCHANGED <<rx_left, msg, monitor, bus, first_sent, data, scanned, codec, stream, fed, frames_met>>

\* read_from_serial with MONITOR set: no timers, no drain.
TimersSkipped ==
  /\ pc = "timers"
  /\ monitor
  /\ pc' = "read"
  /\ UNCHANGED <<cp, rx_left, msg, monitor, bus, first_sent, data, scanned, codec, stream, fed, frames_met>>

\* read_from_serial: OUTBOX is empty, the drain after timers ends.
EndFlush ==
  /\ pc = "flush"
  /\ DrainDone(cp.outbox, Len(bus))
  /\ pc' = "read"
  /\ bus' = <<>>
  /\ cp' = [cp EXCEPT !.queued = <<>>]
  /\ UNCHANGED <<rx_left, msg, monitor, first_sent, data, scanned, codec, stream, fed, frames_met>>

\* A second passes on the wall clock.
ClockTick ==
  /\ pc # "crashed"
  /\ cp' = [cp EXCEPT !.last_message_age = Min(@ + 1, ConfigDelay)]
  /\ UNCHANGED <<pc, rx_left, msg, monitor, bus, first_sent, data, scanned, codec, stream, fed, frames_met>>

Next ==
  \/ ReadData
  \/ NoData
  \/ FrameRejected
  \/ FrameObserved
  \/ FrameDispatched
  \/ SendPacket
  \/ SendCrash
  \/ EndReply
  \/ Timers
  \/ TimersSkipped
  \/ EndFlush
  \/ ClockTick

Spec == Init /\ [][Next]_vars

\* The loop of read_from_serial never blocks (the serial timeout is 0, the
\* sleeps are finite), and the wall clock goes on.
LoopStep ==
  \/ ReadData
  \/ NoData
  \/ FrameRejected
  \/ FrameObserved
  \/ FrameDispatched
  \/ SendPacket
  \/ SendCrash
  \/ EndReply
  \/ Timers
  \/ TimersSkipped
  \/ EndFlush

LiveSpec == Init /\ [][Next]_vars /\ WF_vars(LoopStep) /\ WF_vars(ClockTick)

\* -------------------------------------------- the codecs, one use each
\* Frames as Frame.get_bytes() builds them.
HeartbeatFrame == <<2, 56, 48, 48, 49, 50, 49, 50, 67, 48, 65, 3, 255>>
BadSchemaFrame == <<2, 56, 48, 48, 49, 50, 49, 48, 48, 56, 67, 48, 65, 3, 255>>
RegisterFrame ==
  <<2, 56, 48, 48, 48, 49, 49, 49, 50, 51, 52, 53, 54, 55, 65, 66, 67, 68,
    48, 48, 48, 51, 54, 51, 51, 70, 3, 255>>
SelfRegisterFrame ==
  <<2, 56, 48, 56, 48, 49, 49, 49, 50, 51, 52, 53, 54, 55, 65, 66, 67, 68,
    48, 48, 48, 51, 54, 66, 51, 55, 3, 255>>
ChargingFrame == <<2, 56, 48, 48, 49, 54, 65, 65, 55, 48, 48, 49, 56, 48, 56, 3, 255>>
NullFrame == <<2, 0, 0, 0, 0, 0, 0, 48, 48, 48, 48, 3, 255>>
NulDatFrame == <<2, 66, 67, 48, 49, 50, 65, 0, 0, 53, 57, 55, 51, 3, 255>>
ZFrame == <<2, 90, 90, 48, 49, 50, 49, 55, 56, 48, 50, 3, 255>>
\* The same around a payload of 5 bytes, which get_bytes does not return.
ShortFrame == <<2, 56, 48, 48, 49, 50, 70, 66, 51, 66, 3, 255>>

GoodFrames ==
  {HeartbeatFrame, BadSchemaFrame, ChargingFrame, NullFrame, NulDatFrame, ZFrame}

\* Byte values at and next to the edges of what _validate tells apart.
TestBytes == {0, 2, 3, 47, 48, 57, 58, 64, 65, 90, 91, 97, 255}

\* The envelope of get_bytes around a payload, before it is validated.
Framed(payload) ==
  <<2>> \o payload \o Frame_calculate_checksum(payload)
        \o Frame_calculate_parity(payload) \o <<3, 255>>

\* s with one byte replaced / one byte taken out.
Replaced(s) == {[s EXCEPT ![i] = v] : i \in 1..Len(s), v \in TestBytes}
Without(s) == {SubSeq(s, 1, i - 1) \o SubSeq(s, i + 1, Len(s)) : i \in 1..Len(s)}

\* The payloads given to Frame.get_bytes: those of the frames above, with
\* one byte replaced, and every beginning of them.
PayloadInputs ==
  LET good == {PySlice(f, 1, -6) : f \in GoodFrames}
      some == good \cup UNION {Replaced(b) : b \in good}
  IN  some \cup UNION {{SubSeq(b, 1, n) : n \in 0..Len(b)} : b \in good}

\* The byte strings given to Frame(): valid frames, and frames with a byte
\* replaced, a byte lost, bytes added, or a payload that is not valid.
FrameInputs ==
  GoodFrames
    \cup {ShortFrame, RegisterFrame, <<>>, <<2>>, <<2, 3, 255>>, <<3, 255>>}
    \cup UNION {Replaced(f) : f \in GoodFrames \cup {ShortFrame}}
    \cup UNION {Without(f) : f \in GoodFrames}
    \cup {<<48>> \o f : f \in GoodFrames}
    \cup {f \o <<3, 255>> : f \in GoodFrames}
    \cup {Framed(b) : b \in PayloadInputs}

\* The packets given to get_payload: what arrives, what the ChargePoint
\* sends, and the ends of the ranges of dst, src and cmd.
PacketInputs ==
  RxPackets
    \cup {Packet(ADDR_BROADCAST, ADDR_CP, 30, <<>>),
          Packet(ADDR_CHARGER, ADDR_CP, 27, ConnStateDat),
          Packet(ADDR_CHARGER, ADDR_CP, 52, SetConfigDat),
          Packet(ADDR_CHARGER, ADDR_CP, 107, LimitReadyDat),
          Packet(ADDR_CHARGER, ADDR_CP, 107, LimitChargingDat),
          Packet(ADDR_CHARGER, ADDR_CP, 106, <<"A","A","0","0">>),
          Packet(ADDR_NEW, ADDR_CP, 17, <<"1","2","3","4","5","6","7","0","1","0","3">>),
          Packet(ADDR_BROADCAST, ADDR_CHARGER, 42, <<"NUL","NUL">>)}
    \cup {Packet(d, s, c, dat) :
            d \in {0, 9, 10, 255}, s \in {0, 15, 16, 255}, c \in {0, 42, 255},
            dat \in {<<>>, <<"0","0","A","A","Z","NUL">>}}

\* The loop variables, which no codec step touches.
loop ==
  <<cp, pc, rx_left, msg, monitor, bus, first_sent, data, scanned, stream, fed, frames_met>>

CodecInit ==
  /\ cp = CP_init
  /\ pc = "read"
  /\ rx_left = 0
  /\ msg = NoPacket
  /\ monitor = FALSE
  /\ bus = <<>>
  /\ first_sent = <<>>
  /\ data = <<>>
  /\ scanned = <<>>
  /\ stream = <<>>
  /\ fed = 0
  /\ frames_met = <<>>
  /\ codec \in {[NoCodec EXCEPT !.op = "decode", !.frame = f] : f \in FrameInputs}
         \cup {[NoCodec EXCEPT !.op = "encode", !.payload = b] : b \in PayloadInputs}
         \cup {[NoCodec EXCEPT !.op = "pack", !.packet = p] : p \in PacketInputs}

\* Frame(frame): the bytes are validated and the payload is kept.
FrameDecode ==
  /\ codec.op = "decode"
  /\ codec.step = 0
  /\ LET r == Frame_from_bytes(codec.frame)
     IN  codec' = [codec EXCEPT !.step = 1, !.raised = r.raised, !.payload = r.value]
  /\ UNCHANGED loop

\* get_bytes() of the frame object that Frame(frame) built.
FrameReencode ==
  /\ codec.op = "decode"
  /\ codec.step = 1
  /\ ~codec.raised
  /\ LET r == Frame_get_bytes(codec.payload)
     IN  codec' = [codec EXCEPT !.step = 2, !.raised = r.raised, !.frame2 = r.value]
  /\ UNCHANGED loop

\* get_bytes() of a frame object holding payload.
FrameEncode ==
  /\ codec.op = "encode"
  /\ codec.step = 0
  /\ LET r == Frame_get_bytes(codec.payload)
     IN  codec' = [codec EXCEPT !.step = 1, !.raised = r.raised, !.frame = r.value]
  /\ UNCHANGED loop

\* Frame(frame) of the bytes get_bytes() returned.
FrameRedecode ==
  /\ codec.op = "encode"
  /\ codec.step = 1
  /\ ~codec.raised
  /\ LET r == Frame_from_bytes(codec.frame)
     IN  codec' = [codec EXCEPT !.step = 2, !.raised = r.raised, !.payload2 = r.value]
  /\ UNCHANGED loop

\* packet.get_payload()
PacketEncode ==
  /\ codec.op = "pack"
  /\ codec.step = 0
  /\ LET r == Packet_get_payload(codec.packet)
     IN  codec' = [codec EXCEPT !.step = 1, !.raised = r.raised, !.payload = r.value]
  /\ UNCHANGED loop

\* Packet().from_payload(payload) of the payload get_payload() returned.
PacketDecode ==
  /\ codec.op = "pack"
  /\ codec.step = 1
  /\ ~codec.raised
  /\ LET r == Packet_from_payload(codec.payload)
     IN  codec' = [codec EXCEPT !.step = 2, !.raised = r.raised,
                                !.packet2 = IF r.raised THEN NoPacket ELSE r.value]
  /\ UNCHANGED loop

CodecNext ==
  \/ FrameDecode
  \/ FrameReencode
  \/ FrameEncode
  \/ FrameRedecode
  \/ PacketEncode
  \/ PacketDecode

CodecSpec == CodecInit /\ [][CodecNext]_vars

\* ------------------------------------------- find_frames, byte by byte
\* What find_frames has done so far: the ChargePoint, the packets written to
\* HANDLE, the closed frames met with what became of each, whether an error
\* left the function, and the bytes it returns.
ScanStart(c) ==
  [cp |-> c, bus |-> <<>>, scanned |-> <<>>, crashed |-> FALSE, rest |-> <<>>]

\* "while OUTBOX: send(OUTBOX.pop())" inside find_frames.
RECURSIVE Drain(_)
Drain(st) ==
  IF st.cp.outbox = <<>> THEN st
  ELSE LET popped == OutboxPop(st.cp.outbox)
           taken == [st.cp EXCEPT !.outbox = popped.rest]
       IN  IF SendRaises(popped.packet)
             THEN [st EXCEPT !.cp = taken, !.crashed = TRUE]
           ELSE Drain([st EXCEPT !.cp = taken, !.bus = Append(@, popped.packet)])

RECURSIVE find_frames(_, _, _, _)

\* Faulty variant: a frame that is rejected is not cut from data, and the
\* scan ends there.
find_frames_Kept(buf, st, mon, t) ==
  LET n == Find(buf, <<2>>)
      d == Slice(buf, Max(n, 0), Len(buf))
      m == Find(d, <<3, 255>>)
      frame_data == Slice(d, 0, m + 2)
      rest == Slice(d, m + 2, Len(d))
      got == Frame_get_packet(frame_data)
      met(fate) == [st EXCEPT !.scanned = Append(@, [frame |-> frame_data, fate |-> fate])]
      after ==
        IF got.raised THEN met("rejected")
        ELSE IF mon THEN met("printed")
        ELSE IF CP_respond_raises(got.value)
          THEN [met("dispatched") EXCEPT !.crashed = TRUE]
        ELSE Drain([met("dispatched") EXCEPT !.cp = CP_respond(st.cp, got.value, t)])
  IN  IF n < 0 THEN [st EXCEPT !.rest = <<>>]
      ELSE IF m < 0 THEN [st EXCEPT !.rest = d]
      ELSE IF after.crashed THEN after
      ELSE IF got.raised THEN [after EXCEPT !.rest = d]
      ELSE IF rest = <<>> THEN [after EXCEPT !.rest = <<>>]
      ELSE find_frames(rest, after, mon, t)

\* Faulty variant: data without a start of frame marker is returned, not dropped.
find_frames_NoDiscard(buf, st, mon, t) ==
  LET n == Find(buf, <<2>>)
      d == Slice(buf, Max(n, 0), Len(buf))
      m == Find(d, <<3, 255>>)
      frame_data == Slice(d, 0, m + 2)
      rest == Slice(d, m + 2, Len(d))
      got == Frame_get_packet(frame_data)
      met(fate) == [st EXCEPT !.scanned = Append(@, [frame |-> frame_data, fate |-> fate])]
      after ==
        IF got.raised THEN met("rejected")
        ELSE IF mon THEN met("printed")
        ELSE IF CP_respond_raises(got.value)
          THEN [met("dispatched") EXCEPT !.crashed = TRUE]
        ELSE Drain([met("dispatched") EXCEPT !.cp = CP_respond(st.cp, got.value, t)])
  IN  IF n < 0 THEN [st EXCEPT !.rest = buf]
      ELSE IF m < 0 THEN [st EXCEPT !.rest = d]
      ELSE IF after.crashed THEN after
      ELSE IF rest = <<>> THEN [after EXCEPT !.rest = <<>>]
      ELSE find_frames(rest, after, mon, t)

\* Faulty variant: a frame whose end has not come yet is dropped, not kept.
find_frames_Forget(buf, st, mon, t) ==
  LET n == Find(buf, <<2>>)
      d == Slice(buf, Max(n, 0), Len(buf))
      m == Find(d, <<3, 255>>)
      frame_data == Slice(d, 0, m + 2)
      rest == Slice(d, m + 2, Len(d))
      got == Frame_get_packet(frame_data)
      met(fate) == [st EXCEPT !.scanned = Append(@, [frame |-> frame_data, fate |-> fate])]
      after ==
        IF got.raised THEN met("rejected")
        ELSE IF mon THEN met("printed")
        ELSE IF CP_respond_raises(got.value)
          THEN [met("dispatched") EXCEPT !.crashed = TRUE]
        ELSE Drain([met("dispatched") EXCEPT !.cp = CP_respond(st.cp, got.value, t)])
  IN  IF n < 0 THEN [st EXCEPT !.rest = <<>>]
      ELSE IF m < 0 THEN [st EXCEPT !.rest = <<>>]
      ELSE IF after.crashed THEN after
      ELSE IF rest = <<>> THEN [after EXCEPT !.rest = <<>>]
      ELSE find_frames(rest, after, mon, t)

\* Faulty variant: the frame is taken from the last start of frame marker
\* before the end of frame marker, not from the first.
find_frames_Resync(buf, st, mon, t) ==
  LET n == Find(buf, <<2>>)
      d == Slice(buf, Max(n, 0), Len(buf))
      m == Find(d, <<3, 255>>)
      last == CHOOSE i \in 0..Max(m, 0) :
                /\ d[i + 1] = 2
                /\ \A j \in (i + 1)..(Max(m, 0) - 1) : d[j + 1] # 2
      frame_data == Slice(d, last, m + 2)
      rest == Slice(d, m + 2, Len(d))
      got == Frame_get_packet(frame_data)
      met(fate) == [st EXCEPT !.scanned = Append(@, [frame |-> frame_data, fate |-> fate])]
      after ==
        IF got.raised THEN met("rejected")
        ELSE IF mon THEN met("printed")
        ELSE IF CP_respond_raises(got.value)
          THEN [met("dispatched") EXCEPT !.crashed = TRUE]
        ELSE Drain([met("dispatched") EXCEPT !.cp = CP_respond(st.cp, got.value, t)])
  IN  IF n < 0 THEN [st EXCEPT !.rest = <<>>]
      ELSE IF m < 0 THEN [st EXCEPT !.rest = d]
      ELSE IF after.crashed THEN after
      ELSE IF rest = <<>> THEN [after EXCEPT !.rest = <<>>]
      ELSE find_frames(rest, after, mon, t)

\* find_frames(buf), MONITOR being mon and the wall clock reading t.
find_frames(buf, st, mon, t) ==
  LET n == Find(buf, <<2>>)
      d == Slice(buf, Max(n, 0), Len(buf))
      m == Find(d, <<3, 255>>)
      frame_data == Slice(d, 0, m + 2)
      rest == Slice(d, m + 2, Len(d))
      got == Frame_get_packet(frame_data)
      met(fate) == [st EXCEPT !.scanned = Append(@, [frame |-> frame_data, fate |-> fate])]
      after ==
        IF got.raised THEN met("rejected")
        ELSE IF mon THEN met("printed")
        ELSE IF CP_respond_raises(got.value)
          THEN [met("dispatched") EXCEPT !.crashed = TRUE]
        ELSE Drain([met("dispatched") EXCEPT !.cp = CP_respond(st.cp, got.value, t)])
  IN  IF n < 0 THEN [st EXCEPT !.rest = <<>>]
      ELSE IF m < 0 THEN [st EXCEPT !.rest = d]
      ELSE IF after.crashed THEN after
      ELSE IF rest = <<>> THEN [after EXCEPT !.rest = <<>>]
      ELSE find_frames(rest, after, mon, t)

\* What HANDLE.read() may return: whole frames, parts of frames, markers
\* alone and bytes that belong to no frame.
Chunks ==
  { <<2>>, <<3>>, <<255>>, <<48>>, <<48, 2>>, <<3, 255>>,
    HeartbeatFrame, BadSchemaFrame, RegisterFrame, SelfRegisterFrame,
    ChargingFrame, ShortFrame,
    [HeartbeatFrame EXCEPT ![8] = 51],
    SubSeq(HeartbeatFrame, 1, 2), SubSeq(HeartbeatFrame, 3, 13),
    HeartbeatFrame \o BadSchemaFrame \o HeartbeatFrame,
    <<48, 48>> \o HeartbeatFrame \o <<2, 56>>,
    BadSchemaFrame \o ChargingFrame \o <<2, 3>>,
    SelfRegisterFrame \o HeartbeatFrame }

ScanInit ==
  /\ cp = CP_init
  /\ pc = "read"
  /\ rx_left = 0
  /\ msg = NoPacket
  /\ monitor \in BOOLEAN
  /\ bus = <<>>
  /\ first_sent = <<>>
  /\ data = <<>>
  /\ scanned = <<>>
  /\ stream = <<>>
  /\ fed = 0
  /\ frames_met = <<>>
  /\ codec = NoCodec

\* read_from_serial: "data += new_data; data = find_frames(data)".
Received ==
  /\ pc = "read"
  /\ Len(data) <= MaxKeep
  /\ \E new_data \in Chunks, t \in ClockReadings :
       \E done \in {find_frames(data \o new_data, ScanStart(cp), monitor, t)} :
           /\ ~done.crashed
           /\ data' = done.rest
           /\ cp' = [done.cp EXCEPT !.queued = <<>>]
           /\ bus' = done.bus
           /\ scanned' = done.scanned
  /\ UNCHANGED <<pc, rx_left, msg, monitor, first_sent, codec, stream, fed, frames_met>>

\* read_from_serial: find_frames is left by a ValueError of respond or send,
\* which nothing catches.
ReceivedCrash ==
  /\ pc = "read"
  /\ Len(data) <= MaxKeep
  /\ \E new_data \in Chunks, t \in ClockReadings :
       \E done \in {find_frames(data \o new_data, ScanStart(cp), monitor, t)} :
           /\ done.crashed
           /\ data' = data \o new_data
           /\ cp' = done.cp
           /\ bus' = done.bus
           /\ scanned' = done.scanned
  /\ pc' = "crashed"
  /\ UNCHANGED <<rx_left, msg, monitor, first_sent, codec, stream, fed, frames_met>>

ScanNext ==
  \/ Received
  \/ ReceivedCrash

ScanSpec == ScanInit /\ [][ScanNext]_vars

\* ------------------------------------------- one byte stream, any chunks
\* A frame cut short: a start of frame marker and payload bytes, no end.
TruncatedFrame == SubSeq(HeartbeatFrame, 1, 5)

\* What the charger may put on the line: frames back to back, good and bad,
\* bytes between frames, a frame cut short before good ones, a frame whose
\* reply cannot be sent, an end of frame marker on its own.
Streams ==
  { HeartbeatFrame \o BadSchemaFrame \o ChargingFrame,
    <<48, 3, 255>> \o HeartbeatFrame \o <<2, 56>>,
    TruncatedFrame \o HeartbeatFrame \o ChargingFrame,
    SelfRegisterFrame \o HeartbeatFrame,
    ShortFrame \o RegisterFrame \o <<3, 255>> }

StreamInit ==
  /\ cp = CP_init
  /\ pc = "read"
  /\ rx_left = 0
  /\ msg = NoPacket
  /\ monitor \in BOOLEAN
  /\ bus = <<>>
  /\ first_sent = <<>>
  /\ data = <<>>
  /\ scanned = <<>>
  /\ stream \in Streams
  /\ fed = 0
  /\ frames_met = <<>>
  /\ codec = NoCodec

\* read_from_serial: HANDLE.read(HANDLE.in_waiting) returns the next bytes of
\* the stream, however many are waiting; "data += new_data;
\* data = find_frames(data)".
Fed ==
  /\ pc = "read"
  /\ \E k \in 1..(Len(stream) - fed), t \in ClockReadings :
       \E done \in {find_frames(data \o SubSeq(stream, fed + 1, fed + k),
                                ScanStart(cp), monitor, t)} :
           /\ ~done.crashed
           /\ fed' = fed + k
           /\ data' = done.rest
           /\ cp' = [done.cp EXCEPT !.queued = <<>>]
           /\ frames_met' = frames_met \o done.scanned
  /\ UNCHANGED <<pc, rx_left, msg, monitor, bus, first_sent, scanned, codec, stream>>

\* read_from_serial: find_frames is left by a ValueError of respond or send,
\* which nothing catches.
FedCrash ==
  /\ pc = "read"
  /\ \E k \in 1..(Len(stream) - fed), t \in ClockReadings :
       \E done \in {find_frames(data \o SubSeq(stream, fed + 1, fed + k),
                                ScanStart(cp), monitor, t)} :
           /\ done.crashed
           /\ fed' = fed + k
           /\ data' = data \o SubSeq(stream, fed + 1, fed + k)
           /\ cp' = done.cp
           /\ frames_met' = frames_met \o done.scanned
  /\ pc' = "crashed"
  /\ UNCHANGED <<rx_left, msg, monitor, bus, first_sent, scanned, codec, stream>>

StreamNext ==
  \/ Fed
  \/ FedCrash

StreamSpec == StreamInit /\ [][StreamNext]_vars

\* ---------------------------------------------------------------- claims
\* The steps of the loop the claims speak of.
RespondStep == pc = "scan" /\ pc' = "reply"
TimersStep == pc = "timers" /\ pc' = "flush"
\* The packets the step passed to _send, in call order.
Enqueued(n) ==
  /\ Len(cp'.queued) = Len(cp.queued) + n
  /\ Len(cp'.outbox) = Len(cp.outbox) + n
  /\ SubSeq(cp'.queued, 1, Len(cp.queued)) = cp.queued
NewPacket(i) == cp'.queued[Len(cp.queued) + i]

\* C1: handling a 0x11 register request addressed to CP or BROADCAST, in any
\* actor state, leaves charger_state = 1 and enqueues exactly one packet:
\* cmd 0x11, src CP, dst the request's src, dat the first 7 characters of the
\* request's dat followed by "01" and "03".
C1_RegisterReply ==
  [][ (RespondStep /\ msg'.cmd = 17 /\ msg'.dst \in {ADDR_CP, ADDR_BROADCAST})
        => /\ cp'.charger_state = 1
           /\ Enqueued(1)
           /\ NewPacket(1) =
                [dst |-> msg'.src, src |-> 128, cmd |-> 17,
                 dat |-> SubSeq(msg'.dat, 1, 7) \o <<"0","1","0","3">>] ]_vars

\* C1 witness: a register request was handled while the configuration walk
\* was in its third phase and a response was awaited.
C1_Witness ==
  /\ pc = "reply"
  /\ msg.cmd = 17
  /\ msg.dst = ADDR_BROADCAST
  /\ cp.charger_state = 1
  /\ cp.check_message_response
  /\ cp.last_message.cmd = 52
  /\ Len(cp.outbox) = 1

\* The card number an authentication request carries: card_len characters
\* from offset 4 of dat, card_len the hex number at offset 2.
CardOf(m) == Slice(m.dat, 4, 4 + HexInt(Slice(m.dat, 2, 4)))

\* C2: for every 0x22 request addressed to CP or BROADCAST there is a single
\* 0x22 reply, whose status is "01" if and only if the card number is one of
\* allowed_cards or "000000AS", and "12" in every other case.
C2_AuthStatus ==
  [][ (RespondStep /\ msg'.cmd = 34 /\ msg'.dst \in {ADDR_CP, ADDR_BROADCAST})
        => /\ Enqueued(1)
           /\ NewPacket(1).cmd = 34
           /\ NewPacket(1).dst = msg'.src
           /\ LET status == SubSeq(NewPacket(1).dat, 1, 2)
                  granted == \/ CardOf(msg') \in allowed_cards
                             \/ CardOf(msg') = <<"0","0","0","0","0","0","A","S">>
              IN  /\ (status = <<"0","1">>) <=> granted
                  /\ (status = <<"1","2">>) <=> ~granted ]_vars

\* C2 witness: an allow-listed card has been granted access.
C2_Witness ==
  /\ pc = "reply"
  /\ msg.cmd = 34
  /\ CardOf(msg) \in allowed_cards
  /\ cp.outbox # <<>>
  /\ Head(cp.outbox).cmd = 34
  /\ SubSeq(Head(cp.outbox).dat, 1, 2) = <<"0","1">>

\* C3: for a packet whose dst is neither CP nor BROADCAST, whatever its cmd
\* and dat, respond changes nothing of the actor: outbox, charger_state,
\* response check flag, last message and its timestamp.
C3_NotForMe ==
  [][ (RespondStep /\ msg'.dst \notin {ADDR_CP, ADDR_BROADCAST}) => cp' = cp ]_vars

\* C3 witness: a register packet addressed to the charger station was handed
\* to respond and the actor is still idle with nothing enqueued for it.
C3_Witness ==
  /\ pc = "reply"
  /\ msg.cmd = 17
  /\ msg.dst = ADDR_CHARGESTATION
  /\ cp.charger_state = 0
  /\ first_sent # <<>>
  /\ cp.outbox = <<>>
  /\ bus = <<>>

\* C4: a 0x6A request always gets a 0x6A reply with dat "AA00"; state "A7"
\* adds a 0x6B request with dat "01003C003C003C003C", state "81" one with dat
\* "01003C00A000A000A0", any other state none.  The 0x6B switches the
\* response check on and becomes the last message; the ack alone does not
\* touch either.
C4_ChargingState ==
  [][ (RespondStep /\ msg'.cmd = 106 /\ msg'.dst \in {ADDR_CP, ADDR_BROADCAST})
        => LET state == SubSeq(msg'.dat, 1, 2)
               ack == [dst |-> msg'.src, src |-> 128, cmd |-> 106,
                       dat |-> <<"A","A","0","0">>]
               limit(dat) == [dst |-> msg'.src, src |-> 128, cmd |-> 107, dat |-> dat]
               amps60 == <<"0","0","3","C">>
               amps160 == <<"0","0","A","0">>
               tracked(request) ==
                 /\ Enqueued(2)
                 /\ NewPacket(1) = ack
                 /\ NewPacket(2) = request
                 /\ cp'.check_message_response
                 /\ cp'.last_message = request
           IN  IF state = <<"A","7">>
                 THEN tracked(limit(<<"0","1">> \o amps60 \o amps60 \o amps60 \o amps60))
               ELSE IF state = <<"8","1">>
                 THEN tracked(limit(<<"0","1">> \o amps60 \o amps160 \o amps160 \o amps160))
               ELSE /\ Enqueued(1)
                    /\ NewPacket(1) = ack
                    /\ cp'.check_message_response = cp.check_message_response
                    /\ cp'.last_message = cp.last_message ]_vars

\* C4 witness: state "81" was reported while no response was awaited, and the
\* 16 A limit request is now the tracked message.
C4_Witness ==
  /\ pc = "reply"
  /\ msg.cmd = 106
  /\ SubSeq(msg.dat, 1, 2) = <<"8","1">>
  /\ Len(cp.outbox) = 2
  /\ cp.outbox[1].cmd = 107
  /\ cp.last_message = cp.outbox[1]
  /\ cp.check_message_response

\* C5: when timers runs with the response check on and at least 2 s since the
\* last message timestamp, exactly the last message is enqueued again, the
\* check stays on and the timestamp becomes now; with the check off, or less
\* than 2 s gone, nothing is resent: whatever timers enqueues then is the
\* configuration walk's next request, sent together with a phase change.
C5_Retransmit ==
  [][ TimersStep
        => IF cp.check_message_response /\ cp.last_message_age >= 2
             THEN /\ Enqueued(1)
                  /\ NewPacket(1) = cp.last_message
                  /\ cp'.check_message_response
                  /\ cp'.last_message = cp.last_message
                  /\ cp'.last_message_age = 0
             ELSE \/ /\ Enqueued(0)
                     /\ cp'.last_message_age = cp.last_message_age
                     /\ cp'.check_message_response = cp.check_message_response
                     /\ cp'.last_message = cp.last_message
                  \/ /\ Enqueued(1)
                     /\ cp'.charger_state # cp.charger_state
                     /\ NewPacket(1).cmd \in {27, 52}
                     /\ NewPacket(1).dst = 1 ]_vars

\* C5 witness: the 0x6B request awaited for 2 s has just been enqueued again
\* by timers, alone.
C5_Witness ==
  /\ pc = "flush"
  /\ bus = <<>>
  /\ cp.check_message_response
  /\ cp.last_message.cmd = 107
  /\ cp.queued = <<cp.last_message>>
  /\ cp.outbox = <<cp.last_message>>
  /\ cp.last_message_age = 0

\* The set configuration template, field by field.
C6_Template ==
  Rep("F", 8) \o <<"1","E">> \o <<"0","3","0","0","0","0">> \o <<"0","1">>
    \o <<"0","1","0","0","0","1">> \o Rep("0", 14) \o <<"0","1">>
    \o Rep("0", 8) \o <<"3","C">> \o Rep("0", 5) \o <<"3","8","4">>
    \o Rep("0", 6) \o <<"3","C">> \o <<"0","1">> \o Rep("0", 6) \o <<"0","0">>
    \o <<"0","3","E","8","0","1","0","0","0","0">>

\* C6: a timers call that finds the 5 s guard of the configuration walk
\* satisfied (5 s since the last message timestamp, and no resend in this
\* same call) does this: in phase 1 it enqueues one 0x1B to the charger with
\* dat "0000003C00", leaves the response check off and goes to phase 2; in
\* phase 2 it enqueues one 0x34 to the charger with the 86 character
\* template, switches the response check on with that request as the last
\* message, and goes to phase 3; in phase 3 it enqueues nothing and goes idle.
C6_PhaseWalk ==
  [][ (TimersStep /\ cp.last_message_age >= 5 /\ ~cp.check_message_response)
        => /\ cp.charger_state = 1 =>
                /\ Enqueued(1)
                /\ NewPacket(1) = [dst |-> 1, src |-> 128, cmd |-> 27,
                                   dat |-> Rep("0", 6) \o <<"3","C","0","0">>]
                /\ ~cp'.check_message_response
                /\ cp'.last_message = cp.last_message
                /\ cp'.charger_state = 2
           /\ cp.charger_state = 2 =>
                /\ Enqueued(1)
                /\ NewPacket(1) = [dst |-> 1, src |-> 128, cmd |-> 52,
                                   dat |-> C6_Template]
                /\ Len(NewPacket(1).dat) = 86
                /\ cp'.check_message_response
                /\ cp'.last_message = NewPacket(1)
                /\ cp'.charger_state = 3
           /\ cp.charger_state = 3 =>
                /\ Enqueued(0)
                /\ cp'.charger_state = 0 ]_vars

\* C6 witness: the walk has gone through 0x1B and 0x34 and, the 0x34 answered,
\* has just left phase 3 without sending.
C6_Witness ==
  /\ pc = "flush"
  /\ cp.charger_state = 0
  /\ cp.last_message.cmd = 52
  /\ ~cp.check_message_response
  /\ cp.last_message_age >= 5
  /\ cp.queued = <<>>

\* C7: charger_state changes only like this: to 1 when respond handles a 0x11
\* request addressed to CP or BROADCAST, and 1 -> 2, 2 -> 3, 3 -> 0 in timers.
\* No other respond opcode, no resend, no write to the bus changes it.
C7_PhaseTransitions ==
  [][ cp'.charger_state # cp.charger_state
        => \/ /\ RespondStep
              /\ msg'.cmd = 17
              /\ msg'.dst \in {ADDR_CP, ADDR_BROADCAST}
              /\ cp'.charger_state = 1
           \/ /\ TimersStep
              /\ <<cp.charger_state, cp'.charger_state>> \in {<<1, 2>>, <<2, 3>>, <<3, 0>>} ]_vars

\* C7 witness: timers has just taken the walk from phase 2 to phase 3.
C7_Witness ==
  /\ pc = "flush"
  /\ cp.charger_state = 3
  /\ cp.queued # <<>>
  /\ cp.queued[Len(cp.queued)].cmd = 52
  /\ bus = <<>>

\* C8: during a drain the packets written so far are the first packets
\* enqueued, in the order they were enqueued; at the end of the drain after a
\* 0x6A request with state "A7" or "81" the ack was written right before the
\* 0x6B request.
C8_SendOrder ==
  pc \in {"reply", "flush"}
    => /\ Len(bus) + Len(cp.outbox) = Len(cp.queued)
       /\ bus = SubSeq(cp.queued, 1, Len(bus))
       /\ ( /\ pc = "reply"
            /\ msg.cmd = 106
            /\ msg.dst \in {ADDR_CP, ADDR_BROADCAST}
            /\ SubSeq(msg.dat, 1, 2) \in {<<"A","7">>, <<"8","1">>}
            /\ cp.outbox = <<>> )
          => /\ Len(bus) >= 2
             /\ bus[Len(bus) - 1].cmd = 106
             /\ bus[Len(bus)].cmd = 107

\* C8 witness: the ack and the 16 A request have both been written.
C8_Witness ==
  /\ pc = "reply"
  /\ msg.cmd = 106
  /\ SubSeq(msg.dat, 1, 2) = <<"8","1">>
  /\ cp.outbox = <<>>
  /\ Len(bus) = 2
  /\ bus[1].cmd = 106
  /\ bus[2].cmd = 107

\* C9: without MONITOR, once the first packet has been written, OUTBOX is
\* empty and nothing enqueued is unwritten whenever the loop is outside a
\* drain: when the next frame is decoded, also within one chunk, and when
\* respond is called for it.
C9_FlushedBeforeNext ==
  (~monitor /\ first_sent # <<>> /\ pc \in {"scan", "read", "timers"})
    => cp.outbox = <<>> /\ cp.queued = <<>>

\* C9 witness: the replies to the first frame of a chunk of two are all
\* written and the second frame is still to be decoded.
C9_Witness ==
  /\ pc = "reply"
  /\ rx_left = 2
  /\ msg.cmd = 106
  /\ Len(bus) = 2
  /\ cp.outbox = <<>>

\* timers has just enqueued the last message, the response check on.
Resent ==
  /\ pc = "flush"
  /\ bus = <<>>
  /\ cp.check_message_response
  /\ cp.queued = <<cp.last_message>>

\* C10: as long as the response check is on (no 0x31, 0x32, 0x33, 0x34 or
\* 0x6B response has switched it off) and the loop runs, the last message is
\* enqueued again, time after time, whatever else the charger sends.
C10_RetransmitForever ==
  cp.check_message_response
    ~> (Resent \/ ~cp.check_message_response \/ pc = "crashed")

\* The packet whose fields the payload of a valid frame spells out.
PacketOf(frame) ==
  LET text == Decode(PySlice(frame, 1, -6))
  IN  Packet(HexInt(Slice(text, 0, 2)), HexInt(Slice(text, 2, 4)),
             HexInt(Slice(text, 4, 6)), Slice(text, 6, Len(text)))

\* The frame is valid, its dst, src and cmd are hex numbers, and its dat
\* breaks the schema of its command.
BreaksSchemaOnly(frame) ==
  /\ ~Frame_validate_raises(frame)
  /\ HexOK(Slice(Decode(PySlice(frame, 1, -6)), 0, 6))
  /\ PrintRaises(PacketOf(frame))

\* C11: with MONITOR off, every closed frame that passes frame validation
\* and whose packet breaks the schema of its command (a dat of the wrong
\* length, a state code that is not valid) is handed to respond all the same.
C11_SchemaViolationDispatched ==
  \A i \in 1..Len(scanned) :
    (~monitor /\ BreaksSchemaOnly(scanned[i].frame))
      => scanned[i].fate = "dispatched"

\* C12: whatever bytes arrive, no error leaves find_frames: a failure in
\* decoding a frame, in respond, or in encoding and sending the replies is
\* caught and the scan goes on.
C12_IngressNeverCrashes == pc # "crashed"

\* The sum and the bitwise exclusive or of b[lo .. hi], and the ASCII code of
\* an upper-case hex digit, written out for the claims below.
RECURSIVE C16_Sum(_, _, _)
C16_Sum(b, lo, hi) == IF hi < lo THEN 0 ELSE C16_Sum(b, lo, hi - 1) + b[hi]
C16_Bit(b, lo, hi, k) ==
  Cardinality({i \in lo..hi : (b[i] \div (2 ^ k)) % 2 = 1}) % 2
C16_Parity(b, lo, hi) ==
  C16_Bit(b, lo, hi, 0) + 2 * C16_Bit(b, lo, hi, 1) + 4 * C16_Bit(b, lo, hi, 2)
    + 8 * C16_Bit(b, lo, hi, 3) + 16 * C16_Bit(b, lo, hi, 4)
    + 32 * C16_Bit(b, lo, hi, 5) + 64 * C16_Bit(b, lo, hi, 6)
    + 128 * C16_Bit(b, lo, hi, 7)
C16_HexDigit(d) == IF d < 10 THEN 48 + d ELSE 55 + d
C16_PayloadByte(x) == x = 0 \/ (48 <= x /\ x <= 57) \/ (65 <= x /\ x <= 90)

\* The six conditions of a valid frame, on the bytes b[1] .. b[n].
C16_Accepted(b) ==
  LET n == Len(b)
  IN  /\ n >= 13
      /\ b[1] = 2
      /\ b[n - 1] = 3 /\ b[n] = 255
      /\ \A i \in 2..(n - 6) : C16_PayloadByte(b[i])
      /\ b[n - 5] = C16_HexDigit((C16_Sum(b, 2, n - 6) % 256) \div 16)
      /\ b[n - 4] = C16_HexDigit((C16_Sum(b, 2, n - 6) % 256) % 16)
      /\ b[n - 3] = C16_HexDigit(C16_Parity(b, 2, n - 6) \div 16)
      /\ b[n - 2] = C16_HexDigit(C16_Parity(b, 2, n - 6) % 16)

\* C13: when Frame(b) accepts the bytes b, get_bytes() of that frame object
\* returns, and returns exactly b.
C13_FrameRoundTrip ==
  (codec.op = "decode" /\ codec.step = 2)
    => ~codec.raised /\ codec.frame2 = codec.frame

\* C13 witness: a frame with null bytes in its payload was decoded and
\* encoded again.
C13_Witness ==
  /\ codec.op = "decode"
  /\ codec.step = 2
  /\ codec.frame = NulDatFrame
  /\ codec.frame2 = NulDatFrame
  /\ Len(codec.payload) = 8

\* C14: get_bytes() raises exactly when the payload has fewer than 6 bytes
\* or a byte other than null, 0-9, A-Z; otherwise it returns 0x02, the
\* payload, the checksum, the parity, 0x03 0xFF, which meets every condition
\* of a valid frame and which Frame() decodes to the same payload.
C14_EncodeValid ==
  (codec.op = "encode" /\ codec.step >= 1)
    => LET p == codec.payload
           f == codec.frame
           n == Len(p)
           unfit == n < 6 \/ \E i \in 1..n : ~C16_PayloadByte(p[i])
       IN  IF codec.step = 1 /\ codec.raised THEN unfit /\ f = <<>>
           ELSE /\ ~unfit
                /\ Len(f) = n + 7
                /\ f[1] = 2
                /\ SubSeq(f, 2, n + 1) = p
                /\ SubSeq(f, n + 6, n + 7) = <<3, 255>>
                /\ C16_Accepted(f)
                /\ codec.step = 2 => ~codec.raised /\ codec.payload2 = p

\* C14 witness: a payload whose byte sum is above 255 was encoded and
\* decoded back.
C14_Witness ==
  /\ codec.op = "encode"
  /\ codec.step = 2
  /\ codec.payload = <<56, 48, 48, 49, 54, 65, 65, 55, 48, 48>>
  /\ codec.frame = ChargingFrame
  /\ codec.payload2 = codec.payload

C16_DecodeAccepts ==
  (codec.op = "decode" /\ codec.step = 1)
    => /\ ~codec.raised <=> C16_Accepted(codec.frame)
       /\ ~codec.raised
            => codec.payload = SubSeq(codec.frame, 2, Len(codec.frame) - 6)

\* C16 witness: the frame of six null bytes, checksum "00" and parity "00",
\* was accepted.
C16_Witness ==
  /\ codec.op = "decode"
  /\ codec.step = 1
  /\ ~codec.raised
  /\ codec.frame = NullFrame
  /\ codec.payload = <<0, 0, 0, 0, 0, 0>>

\* C17: find_frames applied to the bytes it returned, nothing added, returns
\* the same bytes, meets no frame, calls neither respond nor send.
C17_ScanIdempotent ==
  pc = "read"
    => \A t \in ClockReadings :
         LET again == find_frames(data, ScanStart(cp), monitor, t)
         IN  /\ ~again.crashed
             /\ again.rest = data
             /\ again.scanned = <<>>
             /\ again.bus = <<>>
             /\ again.cp = cp

\* C17 witness: one call met a rejected frame and a dispatched one and kept
\* the beginning of a third.
C17_Witness ==
  /\ pc = "read"
  /\ data = <<2, 3>>
  /\ Len(scanned) = 2
  /\ scanned[1].fate = "rejected"
  /\ scanned[2].fate = "dispatched"
  /\ Len(bus) >= 2

\* C18: with MONITOR set neither respond nor timers is ever called and
\* nothing is written: the restart registration of the constructor stays in
\* OUTBOX, alone, whatever is received and however much time passes.
C18_MonitorSilent ==
  monitor
    => /\ pc \in {"read", "scan", "timers"}
       /\ bus = <<>>
       /\ first_sent = <<>>
       /\ cp.outbox = <<[dst |-> 188, src |-> 128, cmd |-> 30, dat |-> <<>>]>>
       /\ cp.queued = cp.outbox
       /\ cp.charger_state = 0
       /\ ~cp.check_message_response

\* C18 witness: with MONITOR set a frame of a chunk of two was taken in, 5 s
\* have passed, and the second frame is still to come.
C18_Witness ==
  /\ monitor
  /\ pc = "scan"
  /\ rx_left = 1
  /\ cp.last_message_age = 5
  /\ Len(cp.outbox) = 1

\* C19: from the construction of the ChargePoint until respond or timers is
\* first called, OUTBOX holds one packet, cmd 0x1E from CP to BROADCAST with
\* no dat, the response check is off and charger_state is 0.
C19_AfterConstruction ==
  (first_sent = <<>> /\ pc \in {"read", "scan", "timers"})
    => /\ cp.outbox = <<[dst |-> 188, src |-> 128, cmd |-> 30, dat |-> <<>>]>>
       /\ ~cp.check_message_response
       /\ cp.charger_state = 0

\* C19 witness: the loop found nothing to read and is about to call timers
\* for the first time.
C19_Witness ==
  /\ ~monitor
  /\ pc = "timers"
  /\ rx_left = 0
  /\ first_sent = <<>>
  /\ cp.last_message_age = 0
  /\ Len(cp.outbox) = 1
  /\ cp.queued = cp.outbox

\* C20: timers changes charger_state only when at least 5 s have passed
\* since the last message timestamp; with less than 5 s, in phase 1, 2 or 3,
\* charger_state stays and the walk sends nothing (the only packet timers
\* may enqueue then is the resend of the last message).  A resend in the same
\* call sets the timestamp, so the walk waits then too.
C20_WalkGuard ==
  [][ TimersStep
        => /\ cp'.charger_state # cp.charger_state => cp.last_message_age >= 5
           /\ (cp.last_message_age < 5 /\ cp.charger_state \in {1, 2, 3})
                => /\ cp'.charger_state = cp.charger_state
                   /\ \/ Enqueued(0)
                      \/ /\ Enqueued(1)
                         /\ cp.check_message_response
                         /\ NewPacket(1) = cp.last_message
           /\ (cp.check_message_response /\ cp.last_message_age >= 2)
                => cp'.charger_state = cp.charger_state ]_vars

\* C20 witness: timers ran in phase 2 with 3 s on the clock and did nothing.
C20_Witness ==
  /\ pc = "flush"
  /\ cp.charger_state = 2
  /\ cp.last_message_age = 3
  /\ ~cp.check_message_response
  /\ cp.queued = <<>>
  /\ cp.outbox = <<>>

\* C21: a 0x31, 0x32, 0x33, 0x34 or 0x6B packet addressed to CP or BROADCAST
\* switches the response check off, whichever request last_message holds:
\* nothing is enqueued, charger_state, last_message and its timestamp stay;
\* and with the check off timers resends nothing, the only packet it can
\* enqueue being one of the configuration walk.
C21_ResponseClearsCheck ==
  [][ /\ (RespondStep /\ msg'.cmd \in {49, 50, 51, 52, 107}
                      /\ msg'.dst \in {ADDR_CP, ADDR_BROADCAST})
        => /\ ~cp'.check_message_response
           /\ Enqueued(0)
           /\ cp'.outbox = cp.outbox
           /\ cp'.charger_state = cp.charger_state
           /\ cp'.last_message = cp.last_message
           /\ cp'.last_message_age = cp.last_message_age
      /\ (TimersStep /\ ~cp.check_message_response)
        => \/ Enqueued(0)
           \/ /\ Enqueued(1)
              /\ cp'.charger_state # cp.charger_state ]_vars

\* C21 witness: a 0x31 response to BROADCAST or CP has been handled while the
\* last tracked request is the 0x34 of the walk, which is in its third phase;
\* the check is off and nothing is enqueued.
C21_Witness ==
  /\ pc = "reply"
  /\ msg.cmd = 49
  /\ msg.dst \in {ADDR_CP, ADDR_BROADCAST}
  /\ cp.last_message.cmd = 52
  /\ cp.charger_state = 3
  /\ ~cp.check_message_response
  /\ cp.queued = <<>>
  /\ cp.outbox = <<>>

\* The commands respond answers or acts on according to C22.
C22_Listed == {17, 19, 33, 34, 35, 36, 38, 49, 50, 51, 52, 106, 107}

\* C22 as stated: for a packet addressed to CP or BROADCAST whose command is
\* not one of 0x11, 0x13, 0x21, 0x22, 0x23, 0x24, 0x26, 0x31 .. 0x34, 0x6A,
\* 0x6B, respond enqueues nothing and leaves the response check, the last
\* message, its timestamp and charger_state as they are.
C22_OthersNoOp ==
  [][ (RespondStep /\ msg'.cmd \notin C22_Listed
                   /\ msg'.dst \in {ADDR_CP, ADDR_BROADCAST})
        => /\ Enqueued(0)
           /\ cp' = cp ]_vars

\* C22, amended: the same for every command that is neither listed nor 0x66;
\* a 0x66 meter value addressed to CP or BROADCAST is answered with one 0x66
\* packet from CP to its sender with empty dat, sent without the response
\* check, which restarts the timestamp and leaves the flag, the last message
\* and charger_state as they are.
C22_OthersNoOpBut66 ==
  [][ /\ (RespondStep /\ msg'.cmd \notin C22_Listed \cup {102}
                      /\ msg'.dst \in {ADDR_CP, ADDR_BROADCAST})
        => /\ Enqueued(0)
           /\ cp' = cp
      /\ (RespondStep /\ msg'.cmd = 102
                      /\ msg'.dst \in {ADDR_CP, ADDR_BROADCAST})
        => /\ Enqueued(1)
           /\ NewPacket(1) = Packet(msg'.src, ADDR_CP, 102, <<>>)
           /\ cp'.outbox = <<NewPacket(1)>> \o cp.outbox
           /\ cp'.check_message_response = cp.check_message_response
           /\ cp'.last_message = cp.last_message
           /\ cp'.charger_state = cp.charger_state
           /\ cp'.last_message_age = 0 ]_vars

\* C22 witness: a message of the unknown command 0x99 has been handled while
\* a 0x6B request awaits its response in the second phase of the walk;
\* nothing is enqueued and the check is still on.
C22_Witness ==
  /\ pc = "reply"
  /\ msg.cmd = 153
  /\ msg.dst \in {ADDR_CP, ADDR_BROADCAST}
  /\ cp.check_message_response
  /\ cp.last_message.cmd = 107
  /\ cp.charger_state = 2
  /\ cp.queued = <<>>
  /\ cp.outbox = <<>>

\* C23: a 0x13 get meter info packet addressed to CP or BROADCAST makes
\* respond enqueue exactly one packet: cmd 0x33, src CP, dst the packet's
\* src, empty dat. It is sent without the response check: the flag and the
\* last message stay, and so does charger_state.
C23_MeterInfoChains ==
  [][ (RespondStep /\ msg'.cmd = 19 /\ msg'.dst \in {ADDR_CP, ADDR_BROADCAST})
        => /\ Enqueued(1)
           /\ NewPacket(1).cmd = 51
           /\ NewPacket(1).src = ADDR_CP
           /\ NewPacket(1).dst = msg'.src
           /\ NewPacket(1).dat = <<>>
           /\ Head(cp'.outbox) = NewPacket(1)
           /\ cp'.check_message_response = cp.check_message_response
           /\ cp'.last_message = cp.last_message
           /\ cp'.charger_state = cp.charger_state ]_vars

\* C23 witness: a 0x13 request to BROADCAST has been handled in the first
\* phase of the walk; the 0x33 request for its sender is in OUTBOX and the
\* response check is off.
C23_Witness ==
  /\ pc = "reply"
  /\ msg.cmd = 19
  /\ msg.dst = ADDR_BROADCAST
  /\ cp.charger_state = 1
  /\ ~cp.check_message_response
  /\ cp.outbox = <<Packet(msg.src, ADDR_CP, 51, <<>>)>>
  /\ cp.queued = cp.outbox

\* A drain loop writes one packet to HANDLE.
WriteStep == pc \in {"reply", "flush"} /\ Len(bus') = Len(bus) + 1

\* C24 as stated: OUTBOX is consumed last in, first out: a write takes the
\* packet at the front of OUTBOX, where _send has put the latest one, so the
\* packets written in a drain are the most recently enqueued ones, latest
\* first.
C24_LastInFirstOut ==
  pc \in {"reply", "flush"}
    => \A i \in 1..Len(bus) : bus[i] = cp.queued[Len(cp.queued) + 1 - i]

\* C24, amended: OUTBOX is consumed first in, first out: respond and timers
\* put each packet at the front (left end) of OUTBOX and a write takes the
\* packet at the back (right end), which is the earliest enqueued packet not
\* yet written; within one drain packets are written in the order enqueued.
C24_FirstInFirstOut ==
  [][ /\ (RespondStep \/ TimersStep)
        => LET k == Len(cp'.queued) - Len(cp.queued)
           IN  /\ k >= 0
               /\ Len(cp'.outbox) = k + Len(cp.outbox)
               /\ \A i \in 1..k : cp'.outbox[i] = NewPacket(k + 1 - i)
               /\ SubSeq(cp'.outbox, k + 1, Len(cp'.outbox)) = cp.outbox
      /\ WriteStep
        => /\ cp.outbox # <<>>
           /\ bus' = Append(bus, cp.outbox[Len(cp.outbox)])
           /\ cp'.outbox = SubSeq(cp.outbox, 1, Len(cp.outbox) - 1)
           /\ bus'[Len(bus')] = cp.queued[Len(bus) + 1]
           /\ \A i \in 1..Len(cp'.outbox) :
                cp'.outbox[i] = cp.queued[Len(cp.queued) + 1 - i] ]_vars

\* C24 witness: of the ack and the 0x6B request enqueued for a charging state
\* message, the ack, enqueued first, is written and the request, enqueued
\* last, is still in OUTBOX.
C24_Witness ==
  /\ pc = "reply"
  /\ msg.cmd = 106
  /\ Len(bus) = 1
  /\ Len(cp.outbox) = 1
  /\ bus[1].cmd = 106
  /\ cp.outbox[1].cmd = 107
  /\ cp.queued = <<bus[1], cp.outbox[1]>>

\* The positions of the start of frame markers of buf, and whether an end of
\* frame marker (0x03 0xFF) lies at or after position i.
SofAt(buf) == {i \in 1..Len(buf) : buf[i] = 2}
FirstSof(buf) == CHOOSE i \in SofAt(buf) : \A j \in SofAt(buf) : i <= j
EofFrom(buf, i) == {j \in i..(Len(buf) - 1) : buf[j] = 3 /\ buf[j + 1] = 255}

\* C25: a buffer without 0x02 leaves an empty remainder (and no frame is
\* met); a buffer with a 0x02 and no 0x03 0xFF after the first one leaves the
\* buffer from that first 0x02 onward; and after every call of find_frames
\* that returns, the bytes kept are none, or start with 0x02 and hold no
\* 0x03 0xFF.
C25_Remainder ==
  /\ pc = "read"
       => \/ data = <<>>
          \/ data[1] = 2 /\ EofFrom(data, 1) = {}
  /\ \A new_data \in Chunks, t \in ClockReadings :
       LET buf == data \o new_data
           done == find_frames(buf, ScanStart(cp), monitor, t)
       IN  /\ SofAt(buf) = {}
                => done.rest = <<>> /\ done.scanned = <<>> /\ ~done.crashed
           /\ (SofAt(buf) # {} /\ EofFrom(buf, FirstSof(buf)) = {})
                => /\ done.rest = SubSeq(buf, FirstSof(buf), Len(buf))
                   /\ done.scanned = <<>>
                   /\ ~done.crashed

\* C25 witness: of two stray bytes, a frame and the start of another one,
\* the frame has been met and the open start is what is kept.
C25_Witness ==
  /\ pc = "read"
  /\ data = <<2, 56>>
  /\ Len(scanned) = 1
  /\ scanned[1].frame = HeartbeatFrame

\* The closed frame candidates of buf, in order: from the first 0x02 up to
\* and including the first 0x03 0xFF after it, then the same for what follows.
RECURSIVE Candidates(_)
Candidates(buf) ==
  IF SofAt(buf) = {} \/ EofFrom(buf, FirstSof(buf)) = {} THEN <<>>
  ELSE LET i == FirstSof(buf)
           j == CHOOSE e \in EofFrom(buf, i) : \A f \in EofFrom(buf, i) : e <= f
       IN  <<SubSeq(buf, i, j + 1)>> \o Candidates(SubSeq(buf, j + 2, Len(buf)))

\* C26: every closed frame candidate is consumed, whether it decodes or not:
\* one that fails to decode is not dispatched, the scan goes on right after
\* its end of frame marker, and every call of find_frames ends having met
\* every closed candidate of its buffer, none being left in the bytes kept.
C26_EveryCandidateConsumed ==
  /\ \A i \in 1..Len(scanned) :
       Frame_get_packet(scanned[i].frame).raised => scanned[i].fate = "rejected"
  /\ pc = "read" => Candidates(data) = <<>>
  /\ pc = "crashed"
       => [i \in 1..Len(scanned) |-> scanned[i].frame] = Candidates(data)

\* respond has been called for a request for address (0x11) meant for the
\* ChargePoint.
RegisterHandled ==
  /\ pc = "reply"
  /\ msg.cmd = 17
  /\ msg.dst \in {ADDR_CP, ADDR_BROADCAST}

\* C27: the configuration walk ends: while the loop keeps calling timers and
\* the clock goes on, a walk that has started (charger_state 1, 2 or 3)
\* comes back to charger_state 0 unless a further request for address is
\* handled; in particular its third phase is always left in the end.
C27_WalkCompletes ==
  (cp.charger_state = 3)
    ~> (cp.charger_state = 0 \/ RegisterHandled \/ pc = "crashed")

\* A response the charger sends and respond acts on.
ResponseStep ==
  /\ RespondStep
  /\ msg'.cmd \in {49, 50, 51, 52, 107}
  /\ msg'.dst \in {ADDR_CP, ADDR_BROADCAST}

\* C28 as stated: a request sent with the response check stays the one to be
\* resent, the check on, until a response of its own command is handled:
\* no other step switches the check off or puts another packet in its place.
C28_NeverAbandoned ==
  [][ (cp.check_message_response
         /\ ~(ResponseStep /\ msg'.cmd = cp.last_message.cmd))
        => /\ cp'.check_message_response
           /\ cp'.last_message = cp.last_message ]_vars

\* C28, amended: a request sent with the response check stays the one to be
\* resent until any response (0x31, 0x32, 0x33, 0x34 or 0x6B, whatever the
\* request's command) is handled, which switches the check off, or until
\* another request is sent with the response check (the 0x34 of the walk, the
\* 0x6B after a charging state message), which takes its place as last
\* message; no other step does either, and what timers resends is the last
\* message.
C28_OneSlot ==
  [][ /\ ResponseStep => ~cp'.check_message_response
      /\ (cp.check_message_response /\ ~cp'.check_message_response)
           => ResponseStep
      /\ cp'.last_message # cp.last_message
           => /\ cp'.check_message_response
              /\ cp'.last_message = cp'.queued[Len(cp'.queued)]
              /\ \/ /\ RespondStep
                    /\ msg'.cmd = 106
                    /\ cp'.last_message.cmd = 107
                 \/ /\ TimersStep
                    /\ cp.charger_state = 2
                    /\ cp'.last_message.cmd = 52
      /\ (RespondStep /\ msg'.cmd = 106 /\ msg'.dst \in {ADDR_CP, ADDR_BROADCAST}
            /\ SubSeq(msg'.dat, 1, 2) \in {<<"A","7">>, <<"8","1">>})
           => cp'.last_message = cp'.queued[Len(cp'.queued)]
      /\ (TimersStep /\ cp.check_message_response
            /\ cp.last_message_age >= RetryDelay)
           => cp'.queued = Append(cp.queued, cp.last_message) ]_vars

\* C28 witness: the 0x34 of the walk is still unanswered (the walk is in its
\* third phase and the check is on) when a charging state message makes a
\* 0x6B request the last message in its place.
C28_Witness ==
  /\ pc = "reply"
  /\ msg.cmd = 106
  /\ cp.charger_state = 3
  /\ cp.check_message_response
  /\ cp.last_message.cmd = 107
  /\ Len(cp.queued) = 2
  /\ cp.queued[2] = cp.last_message

\* timers finds the response check on and the last message 2 s old or more.
ResendDue == cp.check_message_response /\ cp.last_message_age >= RetryDelay

\* C29: one call of timers enqueues one packet at most. When the resend is
\* due it is the one packet: it restarts the timestamp, so the 5 s guard of
\* the walk fails in the same call and charger_state stays, however old the
\* timestamp was; charger_state changes only in a call without a resend.
C29_OnePerTick ==
  [][ TimersStep
        => /\ Len(cp'.queued) <= Len(cp.queued) + 1
           /\ Len(cp'.outbox) <= Len(cp.outbox) + 1
           /\ ResendDue
                => /\ cp'.queued = Append(cp.queued, cp.last_message)
                   /\ cp'.charger_state = cp.charger_state
                   /\ cp'.last_message_age = 0
           /\ cp'.charger_state # cp.charger_state
                => /\ ~ResendDue
                   /\ cp.last_message_age >= ConfigDelay
                   /\ \A i \in (Len(cp.queued) + 1)..Len(cp'.queued) :
                        cp'.queued[i].cmd \in {27, 52} ]_vars

\* C29 witness: timers has resent the unanswered 0x34 in the third phase of
\* the walk; it is the one packet enqueued, the timestamp is new and the
\* walk is still in its third phase.
C29_Witness ==
  /\ pc = "flush"
  /\ bus = <<>>
  /\ cp.charger_state = 3
  /\ cp.check_message_response
  /\ cp.last_message.cmd = 52
  /\ cp.queued = <<cp.last_message>>
  /\ cp.outbox = cp.queued
  /\ cp.last_message_age = 0

\* C30: whenever the response check is on, the last message is a request sent
\* with the check: cmd 0x34 or 0x6B, src CP; so every packet timers resends
\* is a 0x34 or a 0x6B, and the 0x1E of the start and the replies of respond
\* are never resent.
C30_TrackedOnly ==
  [][ /\ cp.check_message_response
           => /\ cp.last_message.cmd \in {52, 107}
              /\ cp.last_message.src = ADDR_CP
      /\ cp'.check_message_response
           => /\ cp'.last_message.cmd \in {52, 107}
              /\ cp'.last_message.src = ADDR_CP
      /\ (TimersStep /\ cp'.charger_state = cp.charger_state)
           => \A i \in 1..(Len(cp'.queued) - Len(cp.queued)) :
                /\ NewPacket(i) = cp.last_message
                /\ NewPacket(i).cmd \in {52, 107}
                /\ NewPacket(i).src = ADDR_CP ]_vars

\* C30 witness: the 0x6B request for 6 A is the last message and the check is
\* on, two seconds after it was sent, with the reply to a heartbeat written
\* in between.
C30_Witness ==
  /\ pc = "timers"
  /\ cp.check_message_response
  /\ cp.last_message = Packet(ADDR_CHARGER, ADDR_CP, 107, LimitReadyDat)
  /\ cp.last_message_age = RetryDelay
  /\ cp.charger_state = 0
  /\ first_sent # <<>>

\* C31: whatever the chunks in which the bytes of a stream come, the frames
\* find_frames has met so far, each with what became of it (rejected,
\* printed, dispatched), and the bytes it keeps are those of one call on all
\* the bytes received so far; a run of calls ends in an uncaught error exactly
\* when that one call does.
C31_ChunkingIndependent ==
  \A t \in ClockReadings :
    LET whole == find_frames(SubSeq(stream, 1, fed), ScanStart(CP_init), monitor, t)
    IN  /\ frames_met = whole.scanned
        /\ (pc = "crashed") <=> whole.crashed
        /\ pc = "read" => data = whole.rest

\* C31 witness: the bytes have come up to the 0x03 of the last frame's end of
\* frame marker, the 0xFF still to come: the two frames before it are met,
\* one dispatched and one rejected, and the open frame is kept.
C31_Witness ==
  /\ pc = "read"
  /\ ~monitor
  /\ stream = HeartbeatFrame \o BadSchemaFrame \o ChargingFrame
  /\ fed = Len(stream) - 1
  /\ data = SubSeq(ChargingFrame, 1, Len(ChargingFrame) - 1)
  /\ frames_met = <<[frame |-> HeartbeatFrame, fate |-> "dispatched"],
                    [frame |-> BadSchemaFrame, fate |-> "rejected"]>>

\* The well-formed frames lying in buf, as pairs of first and last position:
\* from a 0x02 to a 0x03 0xFF, the bytes making a valid frame of a valid
\* packet.
WellFormedIn(buf) ==
  { ij \in SofAt(buf) \X (1..Len(buf)) :
      /\ (ij[2] - 1) \in EofFrom(buf, ij[1])
      /\ ~Frame_get_packet(SubSeq(buf, ij[1], ij[2])).raised }

\* How often frame lies in buf, and how often it was handed to respond.
TimesIn(frame, buf) ==
  Cardinality({i \in 1..Len(buf) :
                 /\ i + Len(frame) - 1 <= Len(buf)
                 /\ SubSeq(buf, i, i + Len(frame) - 1) = frame})
TimesDispatched(frame) ==
  Cardinality({k \in 1..Len(frames_met) :
                 frames_met[k] = [frame |-> frame, fate |-> "dispatched"]})

RestartRegistration == Packet(ADDR_BROADCAST, ADDR_CP, 30, <<>>)

\* C33: without MONITOR the first packet ever written to HANDLE is the 0x1E
\* restart registration from CP to BROADCAST: it is written before any reply,
\* also when a frame is read and handed to respond before timers is first
\* called, the reply then waiting in OUTBOX behind it. With MONITOR nothing
\* is written.
C33_RestartFirst ==
  [][ /\ (WriteStep /\ first_sent = <<>>)
           => /\ ~monitor
              /\ bus = <<>>
              /\ bus' = <<RestartRegistration>>
              /\ cp.queued[1] = RestartRegistration
              /\ first_sent' = <<RestartRegistration>>
      /\ first_sent # <<>> => first_sent' = first_sent
      /\ first_sent' # <<>> => first_sent' = <<RestartRegistration>>
      /\ (first_sent' = <<>> /\ pc' # "crashed") => bus' = <<>> ]_vars

\* C33 witness: a heartbeat was waiting and has been handed to respond
\* before timers was ever called; the restart registration is written, the
\* first packet ever, and the reply to the heartbeat is still in OUTBOX.
C33_Witness ==
  /\ ~monitor
  /\ pc = "reply"
  /\ msg.cmd = 33
  /\ first_sent = <<RestartRegistration>>
  /\ bus = <<RestartRegistration>>
  /\ Len(cp.outbox) = 1
  /\ cp.outbox[1].cmd = 33
  /\ cp.queued = <<RestartRegistration, cp.outbox[1]>>

====
